---------------------------- MODULE Spec2Model ----------------------------
(***************************************************************************)
(* Model of the ART debt consolidation (art/services/consolidar.py), of    *)
(* the persistence of a run (art/services/persistencia_consolidado.py,     *)
(* art/views/consolidado.py), of the mail task (art/tasks.py) and of the   *)
(* text normalisers of periods, amounts and tax ids.                       *)
(*                                                                         *)
(* Conventions.  A text cell that pandas reads as NaN is the string NA.    *)
(* A numeric cell is a sequence: <<>> is NaN, <<n>> is the number n.       *)
(* Amounts are whole pesos; Q is kept in hundredths (250 is 2.50).         *)
(* A table (DataFrame) is a sequence of records, in row order.             *)
(***************************************************************************)
EXTENDS Integers, Sequences, FiniteSets, TLC

VARIABLES
    maestro,     \* rows of the master roster workbook, in file order
    carpetas,    \* insurer folder -> [existe, filas]: the period file and its rows
    mapeo,       \* insurers that have a row in "Mapeo aseguradoras.xlsx"
    corrida,     \* outcome of generar_xlsx: [estado, hojas]
    derivadas,   \* outcome of derivar_hojas_consolidado on the last base table
    releido,     \* the sheets consolidado_view reads back from the workbook
    lotes,       \* table art_consolidado_lote, in insertion order
    items,       \* table art_consolidado_item, in insertion order
    guardado,    \* the last call of guardar_lote_y_items: inputs, store before, result
    envios,      \* table EnvioDeudaART: id -> row
    tarea,       \* the running task_enviar_mails: [estado, ids, pos, resumen]
    logs,        \* table EnvioEmailLog, in insertion order
    gmail,       \* messages accepted by Gmail, in order: envio ids
    calculo,     \* one call of a text normaliser: [funcion, entrada, salidas]
    tablero,     \* table ArtDashboardContratoPeriodo: the rows of the panel
    sesion,      \* the session of the send wizard
    cola,        \* the task_enviar_mails messages enqueued and not yet taken
    pedido,      \* the last request the send wizard answered
    sync         \* one run of an incremental CRM sync, and its stored cursor

varsConsol == <<maestro, carpetas, mapeo, corrida, derivadas, releido>>
varsStore  == <<lotes, items, guardado>>
varsMail   == <<envios, tarea, logs, gmail>>
varsTexto  == <<calculo>>
varsOtros  == <<tablero, sesion, cola, pedido, sync>>
vars       == <<maestro, carpetas, mapeo, corrida, derivadas, releido,
                lotes, items, guardado, envios, tarea, logs, gmail, calculo,
                tablero, sesion, cola, pedido, sync>>

-----------------------------------------------------------------------------
(* Bounds of the model *)

MaxMaestro == 2
MaxFilas == 2

-----------------------------------------------------------------------------
(* Generic helpers on tables *)

NA == "<NA>"

SeqsUpTo(S, n) == UNION {[1..k -> S] : k \in 0..n}

RECURSIVE Suma(_)
Suma(s) == IF s = <<>> THEN 0 ELSE Head(s) + Suma(Tail(s))

RECURSIVE Concat(_)
Concat(ss) == IF ss = <<>> THEN <<>> ELSE Head(ss) \o Concat(Tail(ss))

Rango(s) == {s[i] : i \in 1..Len(s)}

Veces(s, x) == Cardinality({i \in 1..Len(s) : s[i] = x})

\* the distinct values of s, in order of first appearance (groupby sort=False)
RECURSIVE Distintos(_)
Distintos(s) ==
    IF s = <<>> THEN <<>>
    ELSE LET d == Distintos(SubSeq(s, 1, Len(s) - 1))
             x == s[Len(s)]
         IN  IF x \in Rango(d) THEN d ELSE Append(d, x)

Mapear(s, F(_)) == [i \in 1..Len(s) |-> F(s[i])]


-----------------------------------------------------------------------------
(* Texts character by character.  Where a normaliser is a chain of string  *)
(* operations, its argument is the sequence of the characters of the text: *)
(* <<"0", "3", "-", "2", "0", "2", "5">> is the text 03-2025.              *)

Digitos == {"0", "1", "2", "3", "4", "5", "6", "7", "8", "9"}

Blancos == {" "}

ValorDigito(c) ==
    CASE c = "0" -> 0 [] c = "1" -> 1 [] c = "2" -> 2 [] c = "3" -> 3
      [] c = "4" -> 4 [] c = "5" -> 5 [] c = "6" -> 6 [] c = "7" -> 7
      [] c = "8" -> 8 [] c = "9" -> 9

SoloDigitos(cs) == \A i \in 1..Len(cs) : cs[i] \in Digitos

\* the number a run of decimal digits denotes
RECURSIVE ValorEntero(_)
ValorEntero(cs) ==
    IF cs = <<>> THEN 0
    ELSE ValorEntero(SubSeq(cs, 1, Len(cs) - 1)) * 10 + ValorDigito(cs[Len(cs)])

\* c repeated n times
Repetir(c, n) == [i \in 1..n |-> c]

\* str.strip()
RECURSIVE lstrip(_)
lstrip(cs) ==
    IF cs # <<>> /\ Head(cs) \in Blancos THEN lstrip(Tail(cs)) ELSE cs

RECURSIVE rstrip(_)
rstrip(cs) ==
    IF cs # <<>> /\ cs[Len(cs)] \in Blancos
    THEN rstrip(SubSeq(cs, 1, Len(cs) - 1)) ELSE cs

strip(cs) == rstrip(lstrip(cs))

\* str.replace(a, b) for one-character a and b
replace(cs, a, b) == [i \in 1..Len(cs) |-> IF cs[i] = a THEN b ELSE cs[i]]

\* str.replace(a, "") for a one-character a, and re.sub of a character class
quitar(cs, S) == SelectSeq(cs, LAMBDA c : c \notin S)

\* str.split(sep): the parts between the occurrences of sep
RECURSIVE split(_, _)
split(cs, sep) ==
    IF \A i \in 1..Len(cs) : cs[i] # sep THEN <<cs>>
    ELSE LET i == CHOOSE k \in 1..Len(cs) :
                      cs[k] = sep /\ \A j \in 1..(k - 1) : cs[j] # sep
         IN  <<SubSeq(cs, 1, i - 1)>> \o split(SubSeq(cs, i + 1, Len(cs)), sep)

\* str.zfill(n) of a text without sign
zfill(cs, n) == IF Len(cs) >= n THEN cs ELSE Repetir("0", n - Len(cs)) \o cs

\* variant of the slice that keeps the whole text
SinRecortar(cs, n) == cs

\* the slice [-n:]
ultimos(cs, n) == IF Len(cs) <= n THEN cs ELSE SubSeq(cs, Len(cs) - n + 1, Len(cs))

\* int(text) succeeds: blanks around, an optional plus sign, then digits only
EsInt(cs) ==
    LET t == strip(cs)
        d == IF t # <<>> /\ Head(t) = "+" THEN Tail(t) ELSE t
    IN  d # <<>> /\ SoloDigitos(d)

int(cs) ==
    LET t == strip(cs)
    IN  ValorEntero(IF Head(t) = "+" THEN Tail(t) ELSE t)

-----------------------------------------------------------------------------
(* Period normalisers *)

\* a date, or the ValueError a normaliser raises
ValueError == [error |-> TRUE, anio |-> 0, mes |-> 0, dia |-> 0]

\* datetime.date(year, month, 1): the year in MINYEAR..MAXYEAR, the month in 1..12
date(yyyy, mm) ==
    IF yyyy \in 1..9999 /\ mm \in 1..12
    THEN [error |-> FALSE, anio |-> yyyy, mes |-> mm, dia |-> 1]
    ELSE ValueError

\* persistencia_consolidado._parse_periodo on the characters of periodo_str
_parse_periodo_chars(periodo_str) ==
    IF periodo_str = <<>> THEN ValueError
    ELSE LET s     == replace(strip(periodo_str), "/", "-")
             parts == split(s, "-")
         IN  IF Len(parts) # 2 THEN ValueError
             ELSE LET a == parts[1]
                      b == parts[2]
                  IN  IF ~EsInt(a) \/ ~EsInt(b) THEN ValueError
                      ELSE IF Len(a) = 4 THEN date(int(a), int(b))
                      ELSE date(int(b), int(a))

\* a text, or the ValueError of unpacking a split that has not two parts
ErrorTexto == [error |-> TRUE, texto |-> <<>>]

\* consolidar._norm_periodo: the text mm.zfill(2) "-" yyyy, whatever mm and yyyy hold
_norm_periodo(periodo) ==
    LET p     == replace(strip(periodo), "/", "-")
        parts == split(p, "-")
    IN  IF Len(parts) # 2 THEN ErrorTexto
        ELSE [error |-> FALSE, texto |-> zfill(parts[1], 2) \o <<"-">> \o parts[2]]

\* re.fullmatch of a pattern of \d and literal characters: forma is a sequence
\* of sets of characters, one per position
fullmatch(forma, s) ==
    Len(s) = Len(forma) /\ \A i \in 1..Len(s) : s[i] \in forma[i]

\* \d{n}
D(n) == Repetir(Digitos, n)

\* volcar_dashboard_art.parse_periodo_any on a text
parse_periodo_any(p) ==
    LET s == strip(p)
    IN  IF fullmatch(D(2) \o <<{"-"}>> \o D(4), s)
        THEN date(int(SubSeq(s, 4, 7)), int(SubSeq(s, 1, 2)))
        ELSE IF fullmatch(D(4) \o <<{"-", "/"}>> \o D(2), s)
        THEN date(int(SubSeq(s, 1, 4)), int(SubSeq(s, 6, 7)))
        ELSE IF fullmatch(D(4) \o <<{"-"}>> \o D(2) \o <<{"-"}>> \o D(2), s)
        THEN date(int(SubSeq(s, 1, 4)), int(SubSeq(s, 6, 7)))
        ELSE ValueError

-----------------------------------------------------------------------------
(* Amount parsers.  A number is kept exactly: sign, integer part and the   *)
(* digits of the fraction without trailing zeros; NaN is the value that    *)
(* to_numeric(errors="coerce") gives for a text that is not a number.      *)

NaN == [nan |-> TRUE, neg |-> FALSE, entero |-> 0, frac |-> <<>>]

RECURSIVE SinCerosFinales(_)
SinCerosFinales(cs) ==
    IF cs # <<>> /\ cs[Len(cs)] = "0"
    THEN SinCerosFinales(SubSeq(cs, 1, Len(cs) - 1)) ELSE cs

Numero(neg, entero, frac) ==
    LET f == SinCerosFinales(frac)
    IN  [nan |-> FALSE, neg |-> neg /\ (entero # 0 \/ f # <<>>),
         entero |-> entero, frac |-> f]

\* the characters _AR_NUM_RE keeps: [0-9,.\-]
CaracteresDeNumero == Digitos \cup {",", ".", "-"}

\* the text of a decimal number: an optional minus sign, digits with at most
\* one period, at least one digit
EsDecimal(w) ==
    LET u     == IF w # <<>> /\ Head(w) = "-" THEN Tail(w) ELSE w
        parts == split(u, ".")
    IN  /\ Len(parts) <= 2
        /\ \A i \in 1..Len(parts) : SoloDigitos(parts[i])
        /\ \E i \in 1..Len(parts) : parts[i] # <<>>

ValorDecimal(w) ==
    LET neg   == w # <<>> /\ Head(w) = "-"
        u     == IF neg THEN Tail(w) ELSE w
        parts == split(u, ".")
    IN  Numero(neg, ValorEntero(parts[1]),
               IF Len(parts) = 2 THEN parts[2] ELSE <<>>)

\* pd.to_numeric(errors="coerce") on one text
to_numeric(w) == IF EsDecimal(w) THEN ValorDecimal(w) ELSE NaN

\* _swap_commas: with a comma in the text every period goes and every comma
\* becomes a period
_swap_commas(v) ==
    IF \E i \in 1..Len(v) : v[i] = ","
    THEN replace(quitar(v, {"."}), ",", ".")
    ELSE v

\* consolidar._to_number_ar_series (decimals=None) on one text cell, given as
\* the characters of astype(str)
_to_number_ar_chars(cs) ==
    LET tmp == strip(cs)
    IN  IF tmp \in {<<>>, <<"n", "a", "n">>, <<"N", "o", "n", "e">>} THEN NaN
        ELSE to_numeric(_swap_commas(
                 SelectSeq(tmp, LAMBDA c : c \in CaracteresDeNumero)))

Caracter(d) ==
    CASE d = 0 -> "0" [] d = 1 -> "1" [] d = 2 -> "2" [] d = 3 -> "3"
      [] d = 4 -> "4" [] d = 5 -> "5" [] d = 6 -> "6" [] d = 7 -> "7"
      [] d = 8 -> "8" [] d = 9 -> "9"

\* the hundredths of the first two digits of a fraction
Centesimos(frac) ==
    ValorEntero(SubSeq(frac \o <<"0", "0">>, 1, 2))

DeCentesimos(neg, h) ==
    Numero(neg, h \div 100, <<Caracter((h % 100) \div 10), Caracter(h % 10)>>)

\* what is left after the second digit of a fraction, against one half of a
\* hundredth: -1 below, 0 equal, 1 above (frac has no trailing zeros)
RestoContraMedio(frac) ==
    IF Len(frac) <= 2 THEN -1
    ELSE LET r == ValorDigito(frac[3])
         IN  IF r > 5 \/ (r = 5 /\ Len(frac) > 3) THEN 1
             ELSE IF r = 5 THEN 0 ELSE -1

\* Series.round(2): to the nearest hundredth, a tie to the even one
round_decimals2(v) ==
    IF v.nan \/ Len(v.frac) <= 2 THEN v
    ELSE LET h == v.entero * 100 + Centesimos(v.frac)
             c == RestoContraMedio(v.frac)
         IN  DeCentesimos(v.neg,
                 IF c = 1 \/ (c = 0 /\ h % 2 = 1) THEN h + 1 ELSE h)

\* Decimal.quantize(0.01, ROUND_HALF_UP): a tie away from zero
quantize(v) ==
    IF v.nan \/ Len(v.frac) <= 2 THEN v
    ELSE LET h == v.entero * 100 + Centesimos(v.frac)
         IN  DeCentesimos(v.neg, IF RestoContraMedio(v.frac) >= 0 THEN h + 1 ELSE h)

UltimaPosicion(s, c) ==
    IF \E i \in 1..Len(s) : s[i] = c
    THEN CHOOSE i \in 1..Len(s) : s[i] = c /\ \A j \in (i + 1)..Len(s) : s[j] # c
    ELSE -1

\* volcar_dashboard_art.to_decimal on a text: None is NaN.  The replace of
\* "$", "ARS" and "U$S" removes characters the re.sub removes anyway.
to_decimal(x) ==
    IF strip(x) = <<>> THEN NaN
    ELSE LET s == SelectSeq(strip(x), LAMBDA c : c \in CaracteresDeNumero)
             t == IF /\ Cardinality({i \in 1..Len(s) : s[i] = ","}) = 1
                     /\ UltimaPosicion(s, ",") > UltimaPosicion(s, ".")
                  THEN replace(quitar(s, {"."}), ",", ".")
                  ELSE s
         IN  IF EsDecimal(t) THEN quantize(ValorDecimal(t)) ELSE NaN

-----------------------------------------------------------------------------
(* Tax id normaliser *)

\* consolidar._norm_cuit_str on one cell, given as the characters of astype(str)
_norm_cuit_chars(cs) ==
    ultimos(zfill(SelectSeq(cs, LAMBDA c : c \in Digitos), 11), 11)

-----------------------------------------------------------------------------
(* The texts of the tables, and their characters *)

Chars(x) ==
    CASE x = ""              -> <<>>
      [] x = "nan"           -> <<"n", "a", "n">>
      [] x = "s/d"           -> <<"s", "/", "d">>
      [] x = "0"             -> <<"0">>
      [] x = "7"             -> <<"7">>
      [] x = "-500"          -> <<"-", "5", "0", "0">>
      [] x = "1.000,00"      -> <<"1", ".", "0", "0", "0", ",", "0", "0">>
      [] x = "3.000,00"      -> <<"3", ".", "0", "0", "0", ",", "0", "0">>
      [] x = "5000,00"       -> <<"5", "0", "0", "0", ",", "0", "0">>
      [] x = "03-2025"       -> <<"0", "3", "-", "2", "0", "2", "5">>
      [] x = "03/2025"       -> <<"0", "3", "/", "2", "0", "2", "5">>
      [] x = "04-2025"       -> <<"0", "4", "-", "2", "0", "2", "5">>
      [] x = "20-12345678-9" -> <<"2", "0", "-", "1", "2", "3", "4", "5", "6",
                                  "7", "8", "-", "9">>
      [] x = "20123456789"   -> <<"2", "0", "1", "2", "3", "4", "5", "6", "7",
                                  "8", "9">>
      [] x = "30500000007"   -> <<"3", "0", "5", "0", "0", "0", "0", "0", "0",
                                  "0", "7">>
      [] x = "00000000007"   -> <<"0", "0", "0", "0", "0", "0", "0", "0", "0",
                                  "0", "7">>
      [] x = "00000000000"   -> <<"0", "0", "0", "0", "0", "0", "0", "0", "0",
                                  "0", "0">>

Textos == {"", "nan", "s/d", "0", "7", "-500", "1.000,00", "3.000,00", "5000,00",
           "03-2025", "03/2025", "04-2025", "20-12345678-9", "20123456789",
           "30500000007", "00000000007", "00000000000"}

\* the text that has the characters cs
Cadena(cs) == CHOOSE x \in Textos : Chars(x) = cs

-----------------------------------------------------------------------------
(* Text and number normalisers, tabulated on the strings the model uses *)

\* Series.astype(str): NaN becomes the text "nan"
AStr(x) == IF x = NA THEN "nan" ELSE x

\* str.strip()
Strip(x) ==
    CASE x = " "            -> ""
      [] x = " VERDADERO "  -> "VERDADERO"
      [] x = " DOMESTICA"   -> "DOMESTICA"
      [] x = " premier "    -> "premier"
      [] x = "promecor "    -> "promecor"
      [] x = "andina art "  -> "andina art"
      [] x = " a@b.com "    -> "a@b.com"
      [] OTHER              -> x

\* str.upper()
Upper(x) ==
    CASE x \in {"andina art", "Andina ART"} -> "ANDINA ART"
      [] x \in {"Experta", "experta"}       -> "EXPERTA"
      [] x = "Otra ART"                     -> "OTRA ART"
      [] x \in {"premier", "Premier"}       -> "PREMIER"
      [] x \in {"promecor", "Promecor"}     -> "PROMECOR"
      [] x = "Lopez"                        -> "LOPEZ"
      [] x = "Otro"                         -> "OTRO"
      [] x = "nan"                          -> "NAN"
      [] OTHER                              -> x

\* str.casefold() and str.lower(), equal on these strings
Casefold(x) ==
    CASE x \in {"VERDADERO", "Verdadero"}          -> "verdadero"
      [] x = " VERDADERO "                        -> " verdadero "
      [] x \in {"True", "TRUE"}                   -> "true"
      [] x \in {"False", "FALSE"}                 -> "false"
      [] x \in {"Si", "SI"}                       -> "si"
      [] x \in {"DOMESTICA", "Domestica"}         -> "domestica"
      [] x = "Doméstica"                          -> "doméstica"
      [] x = "Comercio"                           -> "comercio"
      [] x \in {"Experta", "EXPERTA"}             -> "experta"
      [] x \in {"Andina ART", "ANDINA ART"}       -> "andina art"
      [] x = "None"                               -> "none"
      [] x = "Vigente"                            -> "vigente"
      [] x = "Anulada"                            -> "anulada"
      [] x \in {"Premier", "PREMIER"}             -> "premier"
      [] x = "No es Premier"                      -> "no es premier"
      [] OTHER                                    -> x

_as_bool(x) ==
    Casefold(Strip(AStr(x))) \in {"true", "verdadero", "1", "t", "yes", "si", "sí"}

_is_empty_email(x) ==
    LET ss == Strip(AStr(x))
    IN  ss = "" \/ Casefold(ss) \in {"nan", "none"}

\* _norm_cuit_str on the tax ids of the model: digits only, zfill(11), last 11
\* _norm_cuit_str on the tax id texts of the tables: the values of
\* _norm_cuit_chars on their characters (TablasSegunCaracteres)
_norm_cuit_str(x) ==
    CASE x = "20-12345678-9" -> "20123456789"
      [] x = "20123456789"   -> "20123456789"
      [] x = "30500000007"   -> "30500000007"
      [] x = "7"             -> "00000000007"
      [] x = NA              -> "00000000000"
      [] OTHER               -> x

_norm_aseg_str(x) == Upper(Strip(AStr(x)))

\* _to_number_ar_series(decimals=2) on the amount texts of the master roster,
\* in whole pesos: the values of _to_number_ar_chars on their characters
\* (TablasSegunCaracteres)
_to_number_ar_series(x) ==
    CASE x = NA          -> <<>>
      [] x = ""          -> <<>>
      [] x = "s/d"       -> <<>>
      [] x = "0"         -> <<0>>
      [] x = "-500"      -> <<-500>>
      [] x = "1.000,00"  -> <<1000>>
      [] x = "3.000,00"  -> <<3000>>
      [] x = "5000,00"   -> <<5000>>

Abs(n) == IF n < 0 THEN -n ELSE n

\* variant: the quotient cut to two decimals instead of rounded
Truncar2(n, d) ==
    LET sg == IF (n < 0) # (d < 0) THEN -1 ELSE 1
    IN  sg * ((100 * Abs(n)) \div Abs(d))

\* round(n / d, 2) in hundredths, d # 0 (nearest, a tie to the even hundredth)
Round2(n, d) ==
    LET sg  == IF (n < 0) # (d < 0) THEN -1 ELSE 1
        num == 100 * Abs(n)
        den == Abs(d)
        q   == num \div den
        r   == num % den
        up  == 2 * r > den \/ (2 * r = den /\ q % 2 = 1)
    IN  sg * (IF up THEN q + 1 ELSE q)

-----------------------------------------------------------------------------
(* Source reader: _leer_deudas_archivo, _cargar_deudas, _cargar_maestro_raw *)

\* sorted([p for p in base.iterdir() if p.is_dir()])
CarpetasOrden == <<"Andina ART", "Experta">>

\* the row of the mapping workbook for an insurer, compared strip + casefold
TieneMapeo(nombre) ==
    \E a \in mapeo : Casefold(Strip(AStr(a))) = Casefold(Strip(nombre))

\* "experta" in nombre.strip().casefold(), "andina" in nombre.strip().casefold()
EsExperta(nombre) == Casefold(Strip(nombre)) \in {"experta"}
EsAndina(nombre) == Casefold(Strip(nombre)) \in {"andina art"}

\* variant: the sign of Experta is left as reported
SinNegar(c) == c

Negar(c) == IF c = <<>> THEN <<>> ELSE <<-c[1]>>

\* groupby(...).sum() skips NaN: an unparseable amount adds nothing
Valor0(c) == IF c = <<>> THEN 0 ELSE c[1]

ClaveCuit(f) == f.cuit
ClaveCuitAseg(f) == <<f.cuit, f.origen>>

\* groupby(Clave, sort=False)["deuda_total"].sum(): one row per key, in order
\* of first appearance
SumarPorCuit(filas) ==
    LET ks == Distintos(Mapear(filas, ClaveCuit))
    IN  [i \in 1..Len(ks) |->
            [cuit   |-> ks[i],
             deuda  |-> <<Suma(Mapear(SelectSeq(filas, LAMBDA f : ClaveCuit(f) = ks[i]),
                                      LAMBDA f : Valor0(f.deuda)))>>,
             origen |-> filas[1].origen]]

SumarPorCuitAseg(filas) ==
    LET ks == Distintos(Mapear(filas, ClaveCuitAseg))
    IN  [i \in 1..Len(ks) |->
            [cuit   |-> ks[i][1],
             deuda  |-> <<Suma(Mapear(SelectSeq(filas, LAMBDA f : ClaveCuitAseg(f) = ks[i]),
                                      LAMBDA f : Valor0(f.deuda)))>>,
             origen |-> ks[i][2]]]

_leer_deudas_archivo(nombre) ==
    LET filas == carpetas[nombre].filas
        tmp   == [i \in 1..Len(filas) |->
                    [cuit   |-> _norm_cuit_str(filas[i].cuit),
                     deuda  |-> IF EsExperta(nombre) THEN Negar(filas[i].deuda)
                                ELSE filas[i].deuda,
                     origen |-> nombre]]
    IN  IF EsAndina(nombre) THEN SumarPorCuit(tmp) ELSE tmp

\* the folders _cargar_deudas reads: "if not fp.exists(): continue"
CarpetasLeidas == SelectSeq(CarpetasOrden, LAMBDA c : carpetas[c].existe)

_cargar_deudas ==
    IF CarpetasLeidas = <<>>
    THEN [ok |-> FALSE, error |-> "FileNotFoundError", filas |-> <<>>]
    ELSE IF \E c \in Rango(CarpetasLeidas) : ~TieneMapeo(c)
    THEN [ok |-> FALSE, error |-> "ValueError: no hay mapeo", filas |-> <<>>]
    ELSE [ok |-> TRUE, error |-> "",
          filas |-> SumarPorCuitAseg(Concat(Mapear(CarpetasLeidas, _leer_deudas_archivo)))]

_cargar_maestro_raw ==
    [i \in 1..Len(maestro) |->
        [maestro[i] EXCEPT !.cuit  = _norm_cuit_str(@),
                           !.costo = _to_number_ar_series(@)]]

-----------------------------------------------------------------------------
(* Matcher: df_consolidado, df_no_cruzan *)

\* is_blank: Cuenta Perdida is NaN or blank after strip; the "Vigente" flag
EsBlank(m) == m.cp = NA \/ Strip(AStr(m.cp)) = ""

ClaveMaestro(m) == <<m.cuit, _norm_aseg_str(m.aseg)>>

\* The plausible slip: no preference for the blank row.
PrimeraSinPreferencia(filas) == filas[1]

\* sort_values([cuit, aseg, Vigente], ascending=[T, T, F]) is stable, then
\* drop_duplicates(keep="first"): of the rows of one key, the first blank row
\* in file order, and without a blank row the first row
PrimeraDelGrupo(filas) ==
    LET vig == SelectSeq(filas, EsBlank)
    IN  IF vig # <<>> THEN vig[1] ELSE filas[1]

\* maestro_compacto: one row per (CUIT, insurer).  The merge only looks rows up
\* by key, so the order of the keys is left as in the file.
MaestroCompacto ==
    LET mr == _cargar_maestro_raw
        ks == Distintos(Mapear(mr, ClaveMaestro))
    IN  [i \in 1..Len(ks) |->
            PrimeraDelGrupo(SelectSeq(mr, LAMBDA m : ClaveMaestro(m) = ks[i]))]

FilaMaestroVacia ==
    [cuit |-> NA, razon |-> NA, contrato |-> <<>>, aseg |-> NA, costo |-> <<>>,
     cp |-> NA, email |-> NA, noContactar |-> NA, productor1 |-> NA,
     productor2 |-> NA, referido |-> NA, clienteImp |-> NA, capitas |-> <<>>,
     ramo |-> NA]

\* The plausible slip: joining on the tax id alone.
CoincidenSoloCuit(d, m) == m.cuit = d.cuit

\* the join condition of the merge: left (cuit, _ASEG_ORIGEN_n), right (CUIT, _ASEG_n)
Coinciden(d, m) == ClaveMaestro(m) = <<d.cuit, _norm_aseg_str(d.origen)>>

\* deudas.merge(maestro_compacto, how="left", ...): each debt row with each
\* master row of its key, or alone; cruza is _ASEG_n.notna()
Merge(deudas, compacto) ==
    Concat([i \in 1..Len(deudas) |->
        LET d  == deudas[i]
            ms == SelectSeq(compacto, LAMBDA m : Coinciden(d, m))
        IN  IF ms = <<>> THEN <<[d |-> d, cruza |-> FALSE, m |-> FilaMaestroVacia]>>
            ELSE [j \in 1..Len(ms) |-> [d |-> d, cruza |-> TRUE, m |-> ms[j]]]])

\* Q periodos deudores: round(deuda / costo, 2) if notna(costo) and costo
\* (a non-zero number is true), then blanked where the cost is NaN or 0
QPeriodos(deuda, costo) ==
    LET q == IF costo # <<>> /\ costo[1] # 0
             THEN <<Round2(deuda[1], costo[1])>> ELSE <<>>
    IN  IF costo = <<>> \/ costo[1] = 0 THEN <<>> ELSE q

CostoMensual(costo) == IF costo = <<>> \/ costo[1] = 0 THEN <<>> ELSE costo

EstadoContrato(cp) == IF cp = NA \/ Strip(AStr(cp)) = "" THEN "Vigente" ELSE cp

Premier(referido) ==
    IF Upper(Strip(AStr(referido))) = "PREMIER" THEN "Premier" ELSE "No es Premier"

\* prod.where(prod.astype(str).str.strip() != "", "PROMECOR")
Productor(prod) == IF Strip(AStr(prod)) # "" THEN prod ELSE "PROMECOR"

\* (A) Ramo = "Domestica" after strip + casefold
RamoDomestica(m) == Casefold(Strip(AStr(m.ramo))) = "domestica"

\* The plausible slip: a strict comparison at the threshold.
FiltroDeudaEstricto(d) == d > 1000 \/ d < 0

\* (B) deuda_num.ge(1000) | deuda_num.lt(0)
FiltroDeuda(d) == d >= 1000 \/ d < 0

FilaConsolidado(x, usaProd1) ==
    [razon       |-> x.m.razon,
     cuit        |-> x.m.cuit,
     contrato    |-> x.m.contrato,
     aseguradora |-> x.d.origen,
     deuda       |-> x.d.deuda,
     costo       |-> CostoMensual(x.m.costo),
     q           |-> QPeriodos(x.d.deuda, x.m.costo),
     estado      |-> EstadoContrato(x.m.cp),
     email       |-> x.m.email,
     noContactar |-> x.m.noContactar,
     productor   |-> Productor(IF usaProd1 THEN x.m.productor1 ELSE x.m.productor2),
     premier     |-> Premier(x.m.referido),
     clienteImp  |-> x.m.clienteImp]

\* the rows of the merge that cross: df[df["_ASEG_n"].notna()]
Cruzados(deudas) == SelectSeq(Merge(deudas, MaestroCompacto), LAMBDA x : x.cruza)

df_consolidado(deudas) ==
    LET cr       == Cruzados(deudas)
        usaProd1 == \E i \in 1..Len(cr) : cr[i].m.productor1 # NA
        pasan    == SelectSeq(cr, LAMBDA x : ~RamoDomestica(x.m) /\ FiltroDeuda(x.d.deuda[1]))
    IN  [i \in 1..Len(pasan) |-> FilaConsolidado(pasan[i], usaProd1)]

FilaNoCruza(x) ==
    [razon       |-> NA,
     cuit        |-> x.d.cuit,
     contrato    |-> <<>>,
     aseguradora |-> x.d.origen,
     deuda       |-> x.d.deuda,
     costo       |-> <<>>,
     q           |-> <<>>,
     estado      |-> NA,
     email       |-> NA,
     noContactar |-> NA,
     productor   |-> NA,
     premier     |-> NA,
     clienteImp  |-> NA]

\* variant: No cruzan passed through the debt thresholds of Consolidado
df_no_cruzan_filtrado(deudas) ==
    Mapear(SelectSeq(Merge(deudas, MaestroCompacto),
                     LAMBDA x : ~x.cruza /\ FiltroDeuda(Valor0(x.d.deuda))),
           FilaNoCruza)

df_no_cruzan(deudas) ==
    Mapear(SelectSeq(Merge(deudas, MaestroCompacto), LAMBDA x : ~x.cruza), FilaNoCruza)

-----------------------------------------------------------------------------
(* View deriver of consolidar.py: the listings based on Consolidado *)

FillNa(x) == IF x = NA THEN "" ELSE x

QDefinido(r) == r.q # <<>>

df_sin_mail(base) ==
    SelectSeq(base, LAMBDA r : _is_empty_email(r.email) /\ r.premier = "No es Premier")

df_anuladas(base) ==
    SelectSeq(base, LAMBDA r :
        Strip(AStr(r.estado)) # "Vigente" /\ ~_is_empty_email(r.email))

df_no_contactar(base) ==
    SelectSeq(base, LAMBDA r :
        /\ _as_bool(r.noContactar)
        /\ ~_as_bool(r.clienteImp)
        /\ r.estado = "Vigente"
        /\ ~_is_empty_email(r.email))

df_clientes_importantes(base) ==
    SelectSeq(base, LAMBDA r :
        /\ _as_bool(r.clienteImp)
        /\ ~_as_bool(r.noContactar)
        /\ r.estado = "Vigente"
        /\ ~_is_empty_email(r.email))

df_un_q_deudor(base) ==
    SelectSeq(base, LAMBDA r :
        /\ QDefinido(r) /\ r.q[1] <= 100
        /\ r.estado = "Vigente"
        /\ ~_is_empty_email(r.email))

df_premier(base) ==
    SelectSeq(base, LAMBDA r :
        r.premier = "Premier" /\ r.estado = "Vigente" /\ ~_is_empty_email(r.email))

df_productor(base) ==
    SelectSeq(base, LAMBDA r :
        /\ Upper(Strip(FillNa(r.productor))) # "PROMECOR"
        /\ QDefinido(r) /\ r.q[1] > 100
        /\ r.estado = "Vigente"
        /\ ~_is_empty_email(r.email)
        /\ r.deuda[1] >= 1000)

df_deuda_promecor(base) ==
    SelectSeq(base, LAMBDA r :
        /\ Upper(Strip(FillNa(r.productor))) = "PROMECOR"
        /\ QDefinido(r) /\ r.q[1] > 100
        /\ r.estado = "Vigente"
        /\ ~_as_bool(r.clienteImp)
        /\ ~_as_bool(r.noContactar)
        /\ r.premier = "No es Premier"
        /\ ~_is_empty_email(r.email)
        /\ r.deuda[1] >= 1000)

ConCapitas(r, cap) ==
    [razon |-> r.razon, cuit |-> r.cuit, contrato |-> r.contrato,
     aseguradora |-> r.aseguradora, deuda |-> r.deuda, costo |-> r.costo,
     q |-> <<>>, estado |-> r.estado, email |-> r.email,
     noContactar |-> r.noContactar, productor |-> r.productor,
     premier |-> r.premier, clienteImp |-> r.clienteImp, capitas |-> cap]

\* base.merge(maestro[[CUIT, Capitas]], on="CUIT", how="left"): each base row
\* once per row of the raw master roster with its tax id; then the rows whose
\* cost is NaN or 0, with Q blank
df_agregar_costo_mensual(base) ==
    LET mr  == _cargar_maestro_raw
        aux == Concat([i \in 1..Len(base) |->
                  LET ms == SelectSeq(mr, LAMBDA m : m.cuit = base[i].cuit)
                  IN  IF ms = <<>> THEN <<ConCapitas(base[i], <<>>)>>
                      ELSE [j \in 1..Len(ms) |-> ConCapitas(base[i], ms[j].capitas)]])
    IN  SelectSeq(aux, LAMBDA r : r.costo = <<>> \/ r.costo[1] = 0)

-----------------------------------------------------------------------------
(* generar_xlsx *)

HojasVacias ==
    [Consolidado |-> <<>>, NoCruzan |-> <<>>, SinMail |-> <<>>, Anuladas |-> <<>>,
     NoContactar |-> <<>>, ClientesImportantes |-> <<>>, UnQDeudor |-> <<>>,
     Premier |-> <<>>, Productor |-> <<>>, DeudaPromecor |-> <<>>,
     AgregarCostoMensual |-> <<>>]

Hojas(deudas) ==
    LET base == df_consolidado(deudas)
    IN  [Consolidado         |-> base,
         NoCruzan            |-> df_no_cruzan(deudas),
         SinMail             |-> df_sin_mail(base),
         Anuladas            |-> df_anuladas(base),
         NoContactar         |-> df_no_contactar(base),
         ClientesImportantes |-> df_clientes_importantes(base),
         UnQDeudor           |-> df_un_q_deudor(base),
         Premier             |-> df_premier(base),
         Productor           |-> df_productor(base),
         DeudaPromecor       |-> df_deuda_promecor(base),
         AgregarCostoMensual |-> df_agregar_costo_mensual(base)]

\* the CUIT cell after int(str(v).strip()): the number, written in decimal
CuitComoEntero(x) ==
    CASE x = "00000000007" -> "7"
      [] x = "00000000000" -> "0"
      [] OTHER             -> x

\* a row as a row of cells of the workbook
FilaExcel(r) == [r EXCEPT !.cuit = CuitComoEntero(@)]

\* the workbook: every sheet written, then its CUIT column turned into numbers
_exportar_excel(hojas) == [h \in DOMAIN hojas |-> Mapear(hojas[h], FilaExcel)]

SinCorrer ==
    [estado |-> "sin_correr", error |-> "", deudas |-> <<>>, hojas |-> HojasVacias,
     xlsx |-> HojasVacias]

\* the run completes: every sheet is computed and exported
GenerarXlsxOk ==
    /\ corrida.estado = "sin_correr"
    /\ _cargar_deudas.ok
    /\ corrida' = [estado |-> "ok", error |-> "", deudas |-> _cargar_deudas.filas,
                   hojas |-> Hojas(_cargar_deudas.filas),
                   xlsx |-> _exportar_excel(Hojas(_cargar_deudas.filas))]
    /\ UNCHANGED <<maestro, carpetas, mapeo, derivadas, releido, varsStore, varsMail, varsTexto, varsOtros>>

\* _cargar_deudas raises: no period file at all, or a file without mapping
GenerarXlsxError ==
    /\ corrida.estado = "sin_correr"
    /\ ~_cargar_deudas.ok
    /\ corrida' = [SinCorrer EXCEPT !.estado = "error", !.error = _cargar_deudas.error]
    /\ UNCHANGED <<maestro, carpetas, mapeo, derivadas, releido, varsStore, varsMail, varsTexto, varsOtros>>

\* With no crossing row, df.apply(..., axis=1) on the empty table returns a
\* DataFrame, and assigning it to the single column raises ValueError in the
\* pandas versions that check it; the others go on (GenerarXlsxOk).
GenerarXlsxSinCruces ==
    /\ corrida.estado = "sin_correr"
    /\ _cargar_deudas.ok
    /\ Cruzados(_cargar_deudas.filas) = <<>>
    /\ corrida' = [SinCorrer EXCEPT !.estado = "error", !.error = "ValueError: apply"]
    /\ UNCHANGED <<maestro, carpetas, mapeo, derivadas, releido, varsStore, varsMail, varsTexto, varsOtros>>

\* a text cell read back: an empty text is an empty cell
CeldaTexto(x) == IF x = "" THEN NA ELSE x

\* pd.read_excel of a sheet of the workbook
pd_read_excel(hoja) ==
    [i \in 1..Len(hoja) |->
        [hoja[i] EXCEPT !.razon = CeldaTexto(@), !.estado = CeldaTexto(@),
                        !.email = CeldaTexto(@), !.noContactar = CeldaTexto(@),
                        !.productor = CeldaTexto(@), !.premier = CeldaTexto(@),
                        !.clienteImp = CeldaTexto(@)]]

SinLeer == [estado |-> "sin_leer", Consolidado |-> <<>>, NoCruzan |-> <<>>, Productor |-> <<>>]

\* consolidado_view reads the three sheets it persists back from the buffer
ConsolidadoViewLeer ==
    /\ corrida.estado = "ok"
    /\ releido = SinLeer
    /\ releido' = [estado |-> "leido",
                   Consolidado |-> pd_read_excel(corrida.xlsx.Consolidado),
                   NoCruzan    |-> pd_read_excel(corrida.xlsx.NoCruzan),
                   Productor   |-> pd_read_excel(corrida.xlsx.Productor)]
    /\ UNCHANGED <<maestro, carpetas, mapeo, corrida, derivadas, varsStore, varsMail, varsTexto, varsOtros>>

-----------------------------------------------------------------------------
(* View deriver of art/utils/consolidado.py: derivar_hojas_consolidado *)

\* _normalize_cuit: the digits as an Int64, written here in decimal
_normalize_cuit(x) ==
    CASE x = "00000000007" -> "7"
      [] x = "00000000000" -> "0"
      [] OTHER             -> x

\* the flags of derivar_hojas_consolidado: astype(str).str.lower().isin([...])
FlagDerivar(x) == Casefold(AStr(x)) \in {"true", "1", "verdadero", "sí", "si"}

VigenteDerivar(r) == Casefold(Strip(AStr(r.estado))) = "vigente"

\* the base table as derivar_hojas_consolidado retypes it
BaseDerivar(df) ==
    [i \in 1..Len(df) |->
        [df[i] EXCEPT !.productor = IF FillNa(@) = "" THEN "PROMECOR" ELSE @,
                      !.premier   = IF Strip(AStr(@)) = "" THEN "No es Premier"
                                    ELSE Strip(AStr(@)),
                      !.cuit      = _normalize_cuit(@)]]

NoCruzanDerivar(nc) ==
    [i \in 1..Len(nc) |-> [nc[i] EXCEPT !.productor = IF @ = "" THEN "PROMECOR" ELSE @]]

\* capitas_lookup: None, or the head count of the first master row of the tax id
CapitasLookup(usar, cuit) ==
    LET ms == SelectSeq(_cargar_maestro_raw, LAMBDA m : _normalize_cuit(m.cuit) = cuit)
    IN  IF usar /\ ms # <<>> THEN ms[1].capitas ELSE <<>>

derivar_hojas_consolidado(df, nc, usarLookup) ==
    LET base == BaseDerivar(df)
        vacio(r) == _is_empty_email(r.email)
        premNo(r) == Casefold(Strip(AStr(r.premier))) = "no es premier"
        premSi(r) == Casefold(Strip(AStr(r.premier))) = "premier"
        noc(r) == FlagDerivar(r.noContactar)
        imp(r) == FlagDerivar(r.clienteImp)
    IN  [Consolidado         |-> base,
         NoCruzan            |-> NoCruzanDerivar(nc),
         SinMail             |-> SelectSeq(base, LAMBDA r : vacio(r) /\ premNo(r)),
         Anuladas            |-> SelectSeq(base, LAMBDA r : ~VigenteDerivar(r) /\ ~vacio(r)),
         NoContactar         |-> SelectSeq(base, LAMBDA r :
                                    noc(r) /\ ~imp(r) /\ VigenteDerivar(r) /\ ~vacio(r)),
         ClientesImportantes |-> SelectSeq(base, LAMBDA r :
                                    imp(r) /\ ~noc(r) /\ VigenteDerivar(r) /\ ~vacio(r)),
         UnQDeudor           |-> SelectSeq(base, LAMBDA r :
                                    QDefinido(r) /\ r.q[1] <= 100 /\ VigenteDerivar(r)
                                    /\ ~vacio(r)),
         Premier             |-> SelectSeq(base, LAMBDA r :
                                    premSi(r) /\ VigenteDerivar(r) /\ ~vacio(r)),
         Productor           |-> SelectSeq(base, LAMBDA r :
                                    /\ Upper(r.productor) # "PROMECOR"
                                    /\ QDefinido(r) /\ r.q[1] > 100
                                    /\ VigenteDerivar(r) /\ ~vacio(r)
                                    /\ r.deuda[1] >= 1000),
         DeudaPromecor       |-> SelectSeq(base, LAMBDA r :
                                    /\ Upper(r.productor) = "PROMECOR"
                                    /\ QDefinido(r) /\ r.q[1] > 100
                                    /\ VigenteDerivar(r)
                                    /\ ~imp(r) /\ ~noc(r) /\ premNo(r) /\ ~vacio(r)
                                    /\ r.deuda[1] >= 1000),
         AgregarCostoMensual |->
            Mapear(SelectSeq(base, LAMBDA r : r.costo = <<>> \/ r.costo[1] = 0),
                   LAMBDA r : ConCapitas(r, CapitasLookup(usarLookup, r.cuit)))]

\* a caller derives the sheets from the base table of the last run, with or
\* without its No cruzan table (None gives an empty sheet) and head counts
DerivarHojasConsolidado ==
    /\ corrida.estado = "ok"
    /\ derivadas = HojasVacias
    /\ corrida.hojas.Consolidado # <<>>
    /\ \E conNc, usarLookup \in BOOLEAN :
          derivadas' = derivar_hojas_consolidado(
                          corrida.hojas.Consolidado,
                          IF conNc THEN corrida.hojas.NoCruzan ELSE <<>>,
                          usarLookup)
    /\ UNCHANGED <<maestro, carpetas, mapeo, corrida, releido, varsStore, varsMail, varsTexto, varsOtros>>

-----------------------------------------------------------------------------
(* Audit store: persistencia_consolidado.guardar_lote_y_items.  A lot is a
   ConsolidadoLote header, an item a ConsolidadoItem; a sheet handed to the
   call is a sequence of row keys, a key standing for the (cuit, aseguradora,
   contrato) of the row *)

MaxLlamadas == 2

FilasMuestra == 200

PeriodoInvalido == ValueError

\* first day of the month as a date, or the ValueError of a malformed text
PeriodoDeTextos ==
    [x \in Textos |-> _parse_periodo_chars(Chars(x))]

_parse_periodo(s) == PeriodoDeTextos[s]

\* the part of the digest a sheet contributes: a tag for an empty sheet, else
\* its length and its first FilasMuestra rows
HashDf(tag, df) ==
    IF df = <<>> THEN <<tag \o "-empty">>
    ELSE <<tag, Len(df), SubSeq(df, 1, IF Len(df) < FilasMuestra THEN Len(df) ELSE FilasMuestra)>>

\* the digest, as the tuple of what is fed to it
_calc_hash(periodo_str, dfC, dfN, dfP, archivos_fuente) ==
    <<periodo_str, archivos_fuente, HashDf("C", dfC), HashDf("N", dfN), HashDf("P", dfP)>>

SinHash == <<>>

\* variant: the duplicate lookup never finds a lot
NoExisteLoteConHash(ls, h) == FALSE

\* ConsolidadoLote.objects.filter(hash_entrada=h).exists()
ExisteLoteConHash(ls, h) == \E i \in 1..Len(ls) : ls[i].hash = h

\* ...order_by("-id").first()
UltimoLoteConHash(ls, h) ==
    LET S == {i \in 1..Len(ls) : ls[i].hash = h}
    IN  ls[CHOOSE i \in S : \A j \in S : j <= i].id

\* what extend_items appends for one sheet
extend_items(df, hoja, lote, periodo) ==
    [i \in 1..Len(df) |-> [lote |-> lote, periodo |-> periodo, clave |-> df[i], hoja |-> hoja]]

\* unique_together (lote, cuit, aseguradora, contrato, periodo, hoja)
ViolaUnicidad(nuevos) == Len(Distintos(nuevos)) # Len(nuevos)

ResultadoGuardar(ls, its, estado, error, lote, creados) ==
    [lotes |-> ls, items |-> its, estado |-> estado, error |-> error,
     lote |-> lote, items_creados |-> creados, duplicado |-> (estado = "duplicado")]

\* variant that deletes nothing
SinBorrar(its, periodo) == its

\* ConsolidadoItem.objects.filter(periodo=periodo).delete()
BorrarPeriodo(its, periodo) == {x \in its : x.periodo # periodo}

\* the call on the store (ls, its) with arguments a: the store it leaves and
\* the GuardadoResultado it returns or the exception it raises
guardar_lote_y_items(ls, its, a) ==
    LET periodo == _parse_periodo(a.periodo_str)
        entrada_hash == IF a.calcular_hash
                        THEN _calc_hash(a.periodo_str, a.hojas.C, a.hojas.N, a.hojas.P,
                                        a.archivos_fuente)
                        ELSE SinHash
        its1 == IF a.reemplazar_periodo THEN BorrarPeriodo(its, periodo) ELSE its
        id == Len(ls) + 1
        lote == [id |-> id, hash |-> entrada_hash,
                 filas_consolidado |-> Len(a.hojas.C), filas_no_cruzan |-> Len(a.hojas.N)]
        nuevos == extend_items(a.hojas.C, "consolidado", id, periodo)
                  \o extend_items(a.hojas.N, "no_cruzan", id, periodo)
                  \o extend_items(a.hojas.P, "productor", id, periodo)
    IN  IF periodo = PeriodoInvalido
        THEN ResultadoGuardar(ls, its, "error", "ValueError", 0, 0)
        ELSE IF /\ a.calcular_hash
                /\ a.evitar_duplicado_por_hash
                /\ ExisteLoteConHash(ls, entrada_hash)
        THEN ResultadoGuardar(ls, its, "duplicado", "", UltimoLoteConHash(ls, entrada_hash), 0)
        ELSE IF ViolaUnicidad(nuevos)
        THEN ResultadoGuardar(Append(ls, lote), its1, "error", "IntegrityError", 0, 0)
        ELSE ResultadoGuardar(Append(ls, lote), its1 \cup Rango(nuevos), "ok", "", id,
                              Len(nuevos))

SinLlamar ==
    [n |-> 0, via |-> "", args |-> <<>>, antes |-> [lotes |-> <<>>, items |-> {}],
     estado |-> "sin_llamar", error |-> "", lote |-> 0, items_creados |-> 0,
     duplicado |-> FALSE]

StoreVacio ==
    /\ lotes = <<>>
    /\ items = {}
    /\ guardado = SinLlamar

Guardar(a, via) ==
    LET r == guardar_lote_y_items(lotes, items, a)
    IN  /\ lotes' = r.lotes
        /\ items' = r.items
        /\ guardado' = [n |-> guardado.n + 1, via |-> via, args |-> a,
                        antes |-> [lotes |-> lotes, items |-> items],
                        estado |-> r.estado, error |-> r.error, lote |-> r.lote,
                        items_creados |-> r.items_creados, duplicado |-> r.duplicado]

\* the period texts of a call: two spellings of one month and an empty text;
\* another month is the one of the lot of an earlier run (StoreConLoteAnterior)
PeriodosStr == {"03-2025", "03/2025", ""}

\* the three sheets of a call: none, one row also in Productor, two rows and
\* an unmatched one, and a sheet with the same row twice
HojasStore ==
    {[C |-> <<>>, N |-> <<>>, P |-> <<>>],
     [C |-> <<1>>, N |-> <<>>, P |-> <<1>>],
     [C |-> <<1, 2>>, N |-> <<3>>, P |-> <<>>],
     [C |-> <<1, 1>>, N |-> <<>>, P |-> <<>>]}

\* a call of the service by any caller
GuardarLoteYItems ==
    /\ guardado.n < MaxLlamadas
    /\ \E p \in PeriodosStr, h \in HojasStore, af \in {"{}", "{andina: a.xlsx}"} :
       \E ch, ev, rp \in BOOLEAN :
          Guardar([periodo_str |-> p, hojas |-> h, archivos_fuente |-> af,
                   calcular_hash |-> ch, evitar_duplicado_por_hash |-> ev,
                   reemplazar_periodo |-> rp], "api")
    /\ UNCHANGED <<varsConsol, varsMail, varsTexto, varsOtros>>

\* the call consolidado_view makes after a run; an exception is swallowed
ConsolidadoViewGuardar ==
    /\ guardado.n < MaxLlamadas
    /\ \E p \in PeriodosStr, h \in HojasStore :
          Guardar([periodo_str |-> p, hojas |-> h, archivos_fuente |-> "{}",
                   calcular_hash |-> TRUE, evitar_duplicado_por_hash |-> FALSE,
                   reemplazar_periodo |-> TRUE], "view")
    /\ UNCHANGED <<varsConsol, varsMail, varsTexto, varsOtros>>

-----------------------------------------------------------------------------
(* Debt notices: tasks.task_enviar_mails.  envios maps the id of each stored
   EnvioDeudaART to its row, filas being its ContratoEnviado rows; logs are
   the EnvioEmailLog records and gmail the messages Gmail accepted *)

MaxEnvios == 2
MaxIds == 2
MaxContratos == 2
MaxTareas == 1

IdsEnvio == 1..MaxEnvios

\* the step of one loop iteration at which an exception is raised, in the try
\* block and in the except block; k is the contract row whose log fails
FallasTry ==
    [paso : {"ninguna", "render", "gmail", "save"}, k : {0}]
       \cup [paso : {"log"}, k : 1..MaxContratos]

FallasExcept ==
    [paso : {"ninguna", "save"}, k : {0}] \cup [paso : {"log"}, k : 1..MaxContratos]

\* log_envio_email for the first n contract rows of an envio
log_envio_email(id, filas, n, estado) ==
    [i \in 1..n |-> [envio |-> id, contrato |-> filas[i], estado |-> estado]]

\* the try block: exc is the exception raised ("" if none), mem the envio
\* object in memory, bd its stored row, sent whether Gmail accepted a message
BloqueTry(e, id, f, mid) ==
    LET enviado == [e EXCEPT !.estado = "ENVIADO", !.message_id = mid,
                             !.detalle_error = ""]
        R(exc, mem, bd, sent, n) ==
            [exc |-> exc, mem |-> mem, bd |-> bd, sent |-> sent,
             logs |-> log_envio_email(id, e.filas, n, "enviado")]
    IN  IF Strip(e.email) = "" THEN R("email vacio", e, e, FALSE, 0)
        ELSE IF f.paso = "render" THEN R("render", e, e, FALSE, 0)
        ELSE IF f.paso = "gmail" THEN R("gmail", e, e, FALSE, 0)
        ELSE IF f.paso = "save" THEN R("save", enviado, e, TRUE, 0)
        ELSE IF f.paso = "log" /\ f.k <= Len(e.filas)
        THEN R("log", enviado, enviado, TRUE, f.k - 1)
        ELSE R("", enviado, enviado, TRUE, Len(e.filas))

\* the except block after the try block ended as t: sale is "error" when the
\* block completes and "excepcion" when it raises in turn
BloqueExcept(t, id, f) ==
    LET bd == [t.bd EXCEPT !.estado = "ERROR", !.detalle_error = t.exc]
        filas == t.bd.filas
    IN  IF f.paso = "save"
        THEN [bd |-> t.bd, logs |-> t.logs, sale |-> "excepcion"]
        ELSE IF f.paso = "log" /\ f.k <= Len(filas)
        THEN [bd |-> bd, logs |-> t.logs \o log_envio_email(id, filas, f.k - 1, "fallido"),
              sale |-> "excepcion"]
        ELSE [bd |-> bd, logs |-> t.logs \o log_envio_email(id, filas, Len(filas), "fallido"),
              sale |-> "error"]

SinTarea ==
    [n |-> 0, estado |-> "sin_tarea", ids |-> <<>>, pos |-> 1, intentos |-> <<>>,
     resumen |-> [procesados |-> 0, ok |-> 0, error |-> 0], error |-> ""]

MailVacio ==
    /\ envios = <<>>
    /\ tarea = SinTarea
    /\ logs = <<>>
    /\ gmail = <<>>

\* the worker starts the task on a list of ids
TaskEnviarMails ==
    /\ tarea.estado # "corriendo"
    /\ tarea.n < MaxTareas
    /\ \E ids \in SeqsUpTo(IdsEnvio, MaxIds) :
          tarea' = [SinTarea EXCEPT !.n = tarea.n + 1, !.estado = "corriendo", !.ids = ids]
    /\ UNCHANGED <<envios, logs, gmail, varsConsol, varsStore, varsTexto, varsOtros>>

\* one iteration of the loop over ids
ProcesarEnvio ==
    /\ tarea.estado = "corriendo"
    /\ tarea.pos <= Len(tarea.ids)
    /\ LET id == tarea.ids[tarea.pos]
       IN  IF id \notin DOMAIN envios
           THEN /\ tarea' = [tarea EXCEPT !.estado = "excepcion", !.error = "DoesNotExist"]
                /\ UNCHANGED <<envios, logs, gmail>>
           ELSE \E f1 \in FallasTry, f2 \in FallasExcept :
                   LET t == BloqueTry(envios[id], id, f1, Len(gmail) + 1)
                       r == IF t.exc = ""
                            THEN [bd |-> t.bd, logs |-> t.logs, sale |-> "ok"]
                            ELSE BloqueExcept(t, id, f2)
                   IN  /\ envios' = [envios EXCEPT ![id] = r.bd]
                       /\ logs' = logs \o r.logs
                       /\ gmail' = IF t.sent
                                   THEN Append(gmail, [envio |-> id, message_id |-> Len(gmail) + 1])
                                   ELSE gmail
                       /\ tarea' =
                            [tarea EXCEPT
                               !.intentos = Append(@, id),
                               !.resumen =
                                  [procesados |-> @.procesados + 1,
                                   ok    |-> @.ok + (IF r.sale = "ok" THEN 1 ELSE 0),
                                   error |-> @.error + (IF r.sale = "error" THEN 1 ELSE 0)],
                               !.pos = IF r.sale = "excepcion" THEN @ ELSE @ + 1,
                               !.estado = IF r.sale = "excepcion" THEN "excepcion" ELSE @,
                               !.error = IF r.sale = "excepcion" THEN f2.paso ELSE @]
    /\ UNCHANGED <<varsConsol, varsStore, varsTexto, varsOtros>>

\* the loop is over: the task returns resumen
RetornarResumen ==
    /\ tarea.estado = "corriendo"
    /\ tarea.pos > Len(tarea.ids)
    /\ tarea' = [tarea EXCEPT !.estado = "retorno"]
    /\ UNCHANGED <<envios, logs, gmail, varsConsol, varsStore, varsTexto, varsOtros>>

-----------------------------------------------------------------------------
(* Inputs of a consolidation run *)

\* a row of the master roster; the contract number and the head count are the
\* position of the row in the workbook, so that every row is recognisable
FilaMaestro(i, cuit, aseg, cp, costo, ramo, email, noc, prod2, ref, cimp) ==
    [cuit |-> cuit, razon |-> "ACME SA", contrato |-> <<i>>, aseg |-> aseg,
     costo |-> costo, cp |-> cp, email |-> email, noContactar |-> noc,
     productor1 |-> NA, productor2 |-> prod2, referido |-> ref,
     clienteImp |-> cimp, capitas |-> <<i>>, ramo |-> ramo]

SinArchivo == [existe |-> FALSE, filas |-> <<>>]
Archivo(filas) == [existe |-> TRUE, filas |-> filas]

CarpetasNombres == {CarpetasOrden[i] : i \in 1..Len(CarpetasOrden)}

\* Reading: one master row; the folders, their period files and the mapping vary
EntradasLectura ==
    /\ maestro = <<FilaMaestro(1, "20123456789", "Andina ART", NA, "1.000,00", NA,
                               "a@b.com", "False", "PROMECOR", NA, "False")>>
    /\ \E fa, fe \in SeqsUpTo([cuit : {"20-12345678-9", "30500000007"},
                              deuda : {<<>>, <<600>>, <<1000>>}], MaxFilas) :
       \E ea, ee \in BOOLEAN :
          carpetas = [c \in CarpetasNombres |->
                        IF c = "Andina ART"
                        THEN (IF ea THEN Archivo(fa) ELSE SinArchivo)
                        ELSE (IF ee THEN Archivo(fe) ELSE SinArchivo)]
    /\ mapeo \in {{"Andina ART", "experta"}, {"Andina ART"}}

\* Matching: up to MaxMaestro master rows whose tax id, insurer, cancellation
\* status and cost vary, against fixed extracts with and without master rows
EntradasCruce ==
    /\ \E n \in 0..MaxMaestro :
       \E f \in [1..n -> [cuit : {"20-12345678-9", "30500000007"},
                          aseg : {"Andina ART", "andina art ", "Experta"},
                          cp : {NA, " ", "Vigente", "Anulada"},
                          costo : {NA, "1.000,00"}]] :
          maestro = [i \in 1..n |->
                        FilaMaestro(i, f[i].cuit, f[i].aseg, f[i].cp, f[i].costo, NA,
                                    "a@b.com", "False", "PROMECOR", NA, "False")]
    /\ carpetas = [c \in CarpetasNombres |->
                     IF c = "Andina ART"
                     THEN Archivo(<<[cuit |-> "20123456789", deuda |-> <<2500>>],
                                    [cuit |-> "30500000007", deuda |-> <<1200>>],
                                    [cuit |-> "20123456789", deuda |-> <<500>>]>>)
                     ELSE Archivo(<<[cuit |-> "20-12345678-9", deuda |-> <<-1500>>]>>)]
    /\ mapeo = {"Andina ART", "experta"}

\* Business filters and Q: one master row and one extract row; the amount, the
\* cost, the line of business and the cancellation status vary
EntradasFiltros ==
    /\ \E cp \in {NA, "Vigente", "Anulada"} :
       \E costo \in {NA, "s/d", "0", "-500", "1.000,00", "3.000,00"} :
       \E ramo \in {NA, "Domestica", " DOMESTICA", "Doméstica", "Comercio"} :
          maestro = <<FilaMaestro(1, "20123456789", "Andina ART", cp, costo, ramo,
                                  "a@b.com", "False", "PROMECOR", NA, "False")>>
    /\ \E d \in {<<>>, <<-50>>, <<0>>, <<999>>, <<1000>>, <<2500>>} :
          carpetas = [c \in CarpetasNombres |->
                        IF c = "Andina ART"
                        THEN Archivo(<<[cuit |-> "20123456789", deuda |-> d]>>)
                        ELSE SinArchivo]
    /\ mapeo = {"Andina ART", "experta"}

\* Views: one master row whose contact and commercial fields vary
EntradasHojas ==
    /\ \E cp \in {NA, "Anulada"} :
       \E costo \in {NA, "1.000,00", "5000,00"} :
       \E email \in {"a@b.com", " ", NA} :
       \E noc \in {"False", " VERDADERO "} :
       \E cimp \in {"False", "Si"} :
       \E prod2 \in {NA, "", "promecor ", "Lopez"} :
       \E ref \in {NA, " premier ", "PREMIER"} :
          maestro = <<FilaMaestro(1, "20123456789", "Andina ART", cp, costo, NA,
                                  email, noc, prod2, ref, cimp)>>
    /\ carpetas = [c \in CarpetasNombres |->
                     IF c = "Andina ART"
                     THEN Archivo(<<[cuit |-> "20123456789", deuda |-> <<2500>>]>>)
                     ELSE SinArchivo]
    /\ mapeo = {"Andina ART", "experta"}

\* Export: one master row and one extract row of the same tax id, written in
\* full, with dashes, or short (padded with zeros by the normaliser)
EntradasExport ==
    /\ \E cuit \in {"7", "20-12345678-9", "30500000007"} :
       \E prod2 \in {"", "Lopez"} :
          /\ maestro = <<FilaMaestro(1, cuit, "Andina ART", NA, "1.000,00", NA,
                                     "a@b.com", "False", prod2, NA, "False")>>
          /\ carpetas = [c \in CarpetasNombres |->
                           IF c = "Andina ART"
                           THEN Archivo(<<[cuit |-> cuit, deuda |-> <<2500>>]>>)
                           ELSE SinArchivo]
    /\ mapeo = {"Andina ART", "experta"}

MaxAplicaciones == 2
MaxLargoCuit == 3

SinCalculo == [funcion |-> "", entrada |-> <<>>, salidas |-> <<>>]

TextoSinUso == calculo = SinCalculo

\* a session without the keys of the wizard
SinSesion == <<>>

SinPedido == [n |-> 0, tipo |-> "", respuesta |-> ""]

\* no sync script has been started
SinSync == [estado |-> "sin_correr"]

\* an option that is None or absent is <<>>, a given one is <<value>>
None == <<>>

\* the panel before any dump
SinVolcar ==
    [filas |-> {}, n |-> 0, via |-> "", reset_pedido |-> FALSE, periodo |-> None,
     estado |-> "sin_volcar", antes |-> {}]

OtrosSinUso ==
    /\ tablero = SinVolcar
    /\ sesion = SinSesion
    /\ cola = <<>>
    /\ pedido = SinPedido
    /\ sync = SinSync

InitConsol ==
    /\ EntradasLectura \/ EntradasCruce \/ EntradasFiltros \/ EntradasHojas
          \/ EntradasExport
    /\ corrida = SinCorrer
    /\ derivadas = HojasVacias
    /\ releido = SinLeer
    /\ StoreVacio
    /\ MailVacio
    /\ TextoSinUso
    /\ OtrosSinUso

NextConsol ==
    \/ GenerarXlsxOk
    \/ GenerarXlsxError
    \/ GenerarXlsxSinCruces
    \/ DerivarHojasConsolidado
    \/ ConsolidadoViewLeer

SpecConsol == InitConsol /\ [][NextConsol]_vars

ConsolSinUso ==
    /\ maestro = <<>>
    /\ carpetas = [c \in CarpetasNombres |-> SinArchivo]
    /\ mapeo = {}
    /\ corrida = SinCorrer
    /\ derivadas = HojasVacias
    /\ releido = SinLeer

\* the store before the calls: empty, or holding the lot of an earlier run
\* for the period 04-2025
StoreConLoteAnterior ==
    /\ lotes = <<[id |-> 1, hash |-> SinHash, filas_consolidado |-> 1,
                  filas_no_cruzan |-> 0]>>
    /\ items = Rango(extend_items(<<1>>, "consolidado", 1, _parse_periodo("04-2025")))
    /\ guardado = SinLlamar

InitStore ==
    /\ ConsolSinUso
    /\ StoreVacio \/ StoreConLoteAnterior
    /\ MailVacio
    /\ TextoSinUso
    /\ OtrosSinUso

NextStore ==
    \/ GuardarLoteYItems
    \/ ConsolidadoViewGuardar

SpecStore == InitStore /\ [][NextStore]_vars

\* the notices the wizard stored: any of the ids, PENDIENTE, with or without
\* recipient and contract rows
InitMail ==
    /\ ConsolSinUso
    /\ StoreVacio
    /\ \E S \in SUBSET IdsEnvio :
          envios \in [S -> [email : {"a@b.com", " "},
                            filas : {[i \in 1..n |-> i] : n \in 0..MaxContratos},
                            estado : {"PENDIENTE"}, message_id : {0},
                            detalle_error : {""}]]
    /\ tarea = SinTarea
    /\ logs = <<>>
    /\ gmail = <<>>
    /\ TextoSinUso
    /\ OtrosSinUso

NextMail ==
    \/ TaskEnviarMails
    \/ ProcesarEnvio
    \/ RetornarResumen

SpecMail == InitMail /\ [][NextMail]_vars

-----------------------------------------------------------------------------
(* The groups of the send wizard *)

MaxFilasGrupo == 3
MaxGrupos == 3
MaxPedidos == 3

ClavesEnvio == {"envio_grupos", "envio_periodo", "envio_hoja"}

\* request.session.get(key)
session_get(s, key) == IF key \in DOMAIN s THEN <<s[key]>> ELSE None

\* the session that keeps its keys
SinReset(s) == s

\* _reset_session: the three keys are popped
_reset_session(s) == [k \in DOMAIN s \ ClavesEnvio |-> s[k]]

\* int(q) of a Q given in hundredths
IntQ(fila) == fila.Q \div 100

\* a rule that keeps two contracts of an email in one message
AgrupadoDesdeDos(filas) == Len(filas) >= 2

\* the test of the grouping rule: the email keeps its contracts in one message
SeMantieneAgrupado(filas) == Len(filas) >= 3

\* _explode_small_groups
RECURSIVE _explode_small_groups(_)
_explode_small_groups(grupos_raw) ==
    IF grupos_raw = <<>> THEN <<>>
    ELSE LET g == Head(grupos_raw)
             de_g == IF SeMantieneAgrupado(g.filas)
                     THEN <<g>>
                     ELSE [i \in 1..Len(g.filas) |->
                             [email |-> g.email,
                              intimado |-> IntQ(g.filas[i]) >= 3,
                              filas |-> <<g.filas[i]>>]]
         IN  de_g \o _explode_small_groups(Tail(grupos_raw))

\* the groups as the first step stores them: intimado is that of the first row
GruposDeSesion(grupos_raw) ==
    LET gs == _explode_small_groups(grupos_raw)
    IN  [i \in 1..Len(gs) |->
           [email |-> gs[i].email,
            intimado |-> IF gs[i].filas = <<>> THEN FALSE
                         ELSE IntQ(gs[i].filas[1]) >= 3,
            filas |-> gs[i].filas]]

EmailsHoja == <<"a@b.com", "c@d.com", "e@f.com">>

\* cargar_consolidado: one group per distinct email of the sheet, in the order
\* of the emails, each with its rows; tam[i] counts the rows of the i-th email
\* and the contract number of a row is its position in the sheet
cargar_consolidado(tam, q) ==
    LET grupo(i) ==
            [email |-> EmailsHoja[i], intimado |-> q >= 300,
             filas |-> [j \in 1..tam[i] |->
                          [Contrato |-> Suma(SubSeq(tam, 1, i - 1)) + j, Q |-> q]]]
    IN  Concat([i \in 1..Len(tam) |-> IF tam[i] > 0 THEN <<grupo(i)>> ELSE <<>>])

FallasConfirmar ==
    [paso : {"ninguna", "delay"}, k : {0}]
       \cup [paso : {"create", "bulk_create"}, k : 1..MaxGrupos]

\* the loop of the confirm step over the groups: hechos counts the groups
\* whose EnvioDeudaART was created before the exception, if any
EnviosCreados(envs, grupos, f) ==
    LET falla == f.paso \in {"create", "bulk_create"} /\ f.k <= Len(grupos)
        hechos == IF ~falla THEN Len(grupos)
                  ELSE IF f.paso = "create" THEN f.k - 1 ELSE f.k
        nuevos == [i \in 1..hechos |->
                     [email |-> grupos[i].email,
                      filas |-> IF falla /\ f.paso = "bulk_create" /\ i = f.k
                                THEN <<>>
                                ELSE [j \in 1..Len(grupos[i].filas) |->
                                        grupos[i].filas[j].Contrato],
                      estado |-> "PENDIENTE", message_id |-> 0,
                      detalle_error |-> ""]]
    IN  [envios |-> envs \o nuevos,
         ids |-> [i \in 1..hechos |-> Len(envs) + i],
         exc |-> IF falla THEN f.paso ELSE IF f.paso = "delay" THEN "delay" ELSE ""]

-----------------------------------------------------------------------------
(* Calls of the text normalisers *)

Y2025 == <<"2", "0", "2", "5">>

MesesTexto == {<<"0", "3">>, <<"1", "2">>, <<"1", "3">>}

DiasTexto == {<<"0", "1">>, <<"3", "1">>}

\* the period texts a caller passes: the documented shapes and others
PeriodosTexto ==
    {m \o <<"-">> \o Y2025 : m \in MesesTexto}
      \cup {m \o <<"/">> \o Y2025 : m \in MesesTexto}
      \cup {Y2025 \o <<"-">> \o m : m \in MesesTexto}
      \cup {Y2025 \o <<"/">> \o m : m \in MesesTexto}
      \cup {Y2025 \o <<"-">> \o m \o <<"-">> \o d : m \in MesesTexto, d \in DiasTexto}
      \cup {Y2025 \o <<"/">> \o <<"0", "3">> \o <<"/">> \o <<"0", "1">>,
            <<>>,
            <<" ">>,
            <<" ", "0", "3", "-", "2", "0", "2", "5">>,
            <<"3", "-", "2", "0", "2", "5">>,
            <<"0", "3", "-", "2", "5">>,
            <<"2", "0", "2", "5", "-", "3">>,
            <<"0", "3", "2", "0", "2", "5">>,
            Y2025,
            <<"a", "b", "-", "c", "d", "e", "f">>,
            <<"m", "a", "r", "-", "2", "0", "2", "5">>,
            <<"0", "3", "-", "2", "0", "2", "5", "-", "0", "1">>,
            <<"0", "0", "-", "2", "0", "2", "5">>}

\* the amount texts of a cell
ImportesTexto ==
    {<<"$", " ", "1", ".", "2", "3", "4", ".", "5", "6", "7", ",", "8", "9">>,
     <<"1", ".", "2", "3", "4", ".", "5", "6", "7", ",", "8", "9">>,
     <<"1", ",", "2", "3", "4", ".", "5", "6">>,
     <<"1", "2", "3", "4", ".", "5", "6">>,
     <<"1", ".", "2", "3", "4", ",", "5", "6">>,
     <<"1", "2", "3", "4", ",", "5", "6">>,
     <<"1", ".", "2", "3", "4", ".", "5", "6", "7">>,
     <<"1", ",", "2", "3", "4", ",", "5", "6", "7">>,
     <<"$", " ", "5", ".", "0", "0", "0">>,
     <<"(", "5", "0", "0", ")">>,
     <<"(", "1", ".", "2", "3", "4", ",", "5", "6", ")">>,
     <<"-", "5", "0", "0">>,
     <<"5", "0", "0", "-">>,
     <<"5", "0", "0">>,
     <<"0">>,
     <<"1", " ", "2", "3", "4", ",", "5", "0">>,
     <<"0", ",", "1", "2", "5">>,
     <<"2", ".", "6", "7", "6">>,
     <<>>,
     <<" ">>,
     <<"n", "a", "n">>,
     <<"N", "o", "n", "e">>,
     <<"s", "/", "d">>,
     <<"a", "b", "c">>,
     <<"-">>,
     <<".">>,
     <<",">>}

\* the tax id cells: short texts of digits, separators and letters, and texts
\* of eleven characters and more
CuitsTexto ==
    SeqsUpTo({"7", "0", "-", "a"}, MaxLargoCuit)
      \cup {Chars("20-12345678-9"), Chars("20123456789"), Chars("nan"),
            <<"2", "0", ".", "1", "2", "3", "4", "5", "6", "7", "8", "/", "9">>,
            <<"0", "0">> \o Chars("20123456789"),
            <<"9", "9">> \o Chars("20123456789"),
            <<"C", "U", "I", "T", " ">> \o Chars("30500000007") \o <<"1">>}

Llamar(f, x) == [funcion |-> f, entrada |-> x, salidas |-> <<>>]

InitTexto ==
    /\ ConsolSinUso
    /\ StoreVacio
    /\ MailVacio
    /\ OtrosSinUso
    /\ \/ \E f \in {"_norm_periodo", "_parse_periodo", "parse_periodo_any"} :
             \E p \in PeriodosTexto : calculo = Llamar(f, p)
       \/ \E f \in {"_to_number_ar_series", "to_decimal"} :
             \E x \in ImportesTexto : calculo = Llamar(f, x)
       \/ \E c \in CuitsTexto : calculo = Llamar("_norm_cuit_str", c)
       \/ \E tam \in [1..Len(EmailsHoja) -> 0..MaxFilasGrupo + 1], q \in {200, 250, 300} :
             calculo = Llamar("_explode_small_groups", cargar_consolidado(tam, q))

Pendiente(f) == calculo.funcion = f /\ calculo.salidas = <<>>

Devolver(r) ==
    /\ calculo' = [calculo EXCEPT !.salidas = Append(@, r)]
    /\ UNCHANGED <<varsConsol, varsStore, varsMail, varsOtros>>

NormPeriodo ==
    /\ Pendiente("_norm_periodo")
    /\ Devolver(_norm_periodo(calculo.entrada))

ParsePeriodo ==
    /\ Pendiente("_parse_periodo")
    /\ Devolver(_parse_periodo_chars(calculo.entrada))

ParsePeriodoAny ==
    /\ Pendiente("parse_periodo_any")
    /\ Devolver(parse_periodo_any(calculo.entrada))

ToNumberArSeries ==
    /\ Pendiente("_to_number_ar_series")
    /\ Devolver(_to_number_ar_chars(calculo.entrada))

ToDecimal ==
    /\ Pendiente("to_decimal")
    /\ Devolver(to_decimal(calculo.entrada))

\* _norm_cuit_str on the cell, and again on its own result
NormCuitStr ==
    /\ calculo.funcion = "_norm_cuit_str"
    /\ Len(calculo.salidas) < MaxAplicaciones
    /\ Devolver(_norm_cuit_chars(IF calculo.salidas = <<>> THEN calculo.entrada
                                 ELSE calculo.salidas[Len(calculo.salidas)]))

ExplodeSmallGroups ==
    /\ Pendiente("_explode_small_groups")
    /\ Devolver(_explode_small_groups(calculo.entrada))

NextTexto ==
    \/ NormPeriodo
    \/ ParsePeriodo
    \/ ParsePeriodoAny
    \/ ToNumberArSeries
    \/ ToDecimal
    \/ NormCuitStr
    \/ ExplodeSmallGroups

SpecTexto == InitTexto /\ [][NextTexto]_vars

\* the tables of _norm_cuit_str and _to_number_ar_series give, on every text
\* they list, the value the character-level definitions compute
TablasSegunCaracteres ==
    /\ \A x \in {"20-12345678-9", "20123456789", "30500000007", "7", NA,
                  "00000000007", "00000000000"} :
          _norm_cuit_str(x) = Cadena(_norm_cuit_chars(Chars(AStr(x))))
    /\ \A x \in {NA, "", "s/d", "0", "-500", "1.000,00", "3.000,00", "5000,00"} :
          LET v == round_decimals2(_to_number_ar_chars(Chars(AStr(x))))
          IN  /\ v.frac = <<>>
              /\ _to_number_ar_series(x) =
                    IF v.nan THEN <<>>
                    ELSE <<IF v.neg THEN 0 - v.entero ELSE v.entero>>


-----------------------------------------------------------------------------
(* Properties of a consolidation run *)

Min(S) == CHOOSE x \in S : \A y \in S : x <= y

\* the rows of sheet h for a (tax id, source insurer) pair
FilasPar(h, cuit, aseg) == {i \in 1..Len(h) : h[i].cuit = cuit /\ h[i].aseguradora = aseg}

\* the master rows (positions in the workbook) of a (tax id, insurer) pair
GrupoMaestro(cuit, aseg) ==
    {i \in 1..Len(maestro) :
        /\ _norm_cuit_str(maestro[i].cuit) = cuit
        /\ _norm_aseg_str(maestro[i].aseg) = _norm_aseg_str(aseg)}

StatusBlanco(i) == maestro[i].cp = NA \/ Strip(AStr(maestro[i].cp)) = ""

\* the row the documented rule picks: the first blank one, else the first
Elegida(G) ==
    IF \E i \in G : StatusBlanco(i) THEN Min({i \in G : StatusBlanco(i)}) ELSE Min(G)

PasaFiltros(d, i) ==
    /\ Casefold(Strip(AStr(maestro[i].ramo))) # "domestica"
    /\ (d.deuda[1] >= 1000 \/ d.deuda[1] < 0)

\* C1 (as claimed): a run that completes has read every insurer folder: each
\* folder has its period file and every row of it is in the aggregated table
C1_NingunaAseguradoraOmitida ==
    corrida.estado = "ok" =>
        \A c \in CarpetasNombres :
            /\ carpetas[c].existe
            /\ \A i \in 1..Len(carpetas[c].filas) :
                  \E j \in 1..Len(corrida.deudas) :
                     /\ corrida.deudas[j].cuit = _norm_cuit_str(carpetas[c].filas[i].cuit)
                     /\ corrida.deudas[j].origen = c

CuitAmbiguo(cuit) ==
    Cardinality({i \in 1..Len(maestro) :
                    _norm_cuit_str(maestro[i].cuit) = cuit /\ StatusBlanco(i)}) >= 2

\* C5 (as claimed): with two blank-status master rows for a tax id, every
\* extract row of the tax id is in No cruzan and none is in Consolidado
C5_AmbiguoVaANoCruzan ==
    corrida.estado = "ok" =>
        \A j \in 1..Len(corrida.deudas) :
            LET d == corrida.deudas[j]
            IN  CuitAmbiguo(d.cuit) =>
                  /\ FilasPar(corrida.hojas.NoCruzan, d.cuit, d.origen) # {}
                  /\ \A i \in 1..Len(corrida.hojas.Consolidado) :
                        corrida.hojas.Consolidado[i].cuit # d.cuit

\* C5 (amended): with two blank-status master rows for a tax id, an extract row
\* of the tax id is in No cruzan exactly when the master has no row for its
\* (tax id, insurer) pair; otherwise it is never in No cruzan, and it is in
\* Consolidado exactly when it passes the business filters, joined to the
\* first blank-status row of the pair (else to the first row of the pair)
C5_AmbiguoCruzaPorPar ==
    corrida.estado = "ok" =>
        \A j \in 1..Len(corrida.deudas) :
            LET d  == corrida.deudas[j]
                G  == GrupoMaestro(d.cuit, d.origen)
                nc == FilasPar(corrida.hojas.NoCruzan, d.cuit, d.origen)
                co == FilasPar(corrida.hojas.Consolidado, d.cuit, d.origen)
            IN  CuitAmbiguo(d.cuit) =>
                  /\ (G = {}) <=> (nc # {})
                  /\ G # {} =>
                        /\ (co # {}) <=> PasaFiltros(d, Elegida(G))
                        /\ \A i \in co :
                              corrida.hojas.Consolidado[i].contrato = <<Elegida(G)>>

C5_Testigo ==
    /\ corrida.estado = "ok"
    /\ \E i \in 1..Len(corrida.hojas.Consolidado) :
          CuitAmbiguo(corrida.hojas.Consolidado[i].cuit)
    /\ \E i \in 1..Len(corrida.hojas.NoCruzan) :
          CuitAmbiguo(corrida.hojas.NoCruzan[i].cuit)

VigenteSegunSpec(i) == StatusBlanco(i) \/ maestro[i].cp = "Vigente"

\* C6 (as claimed): the master row joined into Consolidado is a vigente row
\* (blank or literal "Vigente") whenever the pair has one, otherwise the first
\* row of the pair; the state is "Vigente" exactly when the chosen row is vigente
C6_PrefiereVigenteOLiteral ==
    corrida.estado = "ok" =>
        \A k \in 1..Len(corrida.hojas.Consolidado) :
            LET r == corrida.hojas.Consolidado[k]
                G == GrupoMaestro(r.cuit, r.aseguradora)
                i == r.contrato[1]
            IN  /\ i \in G
                /\ (\E j \in G : VigenteSegunSpec(j)) => VigenteSegunSpec(i)
                /\ ~(\E j \in G : VigenteSegunSpec(j)) => i = Min(G)
                /\ (r.estado = "Vigente") <=> VigenteSegunSpec(i)

\* C6 (amended): the master row joined into Consolidado is the first row of
\* the pair whose cancellation status is blank whenever one exists, whatever
\* the order of the rows, and otherwise the first row of the pair (a literal
\* "Vigente" status gives no preference); the state is "Vigente" exactly when
\* the chosen row's status is blank or the literal "Vigente"
C6_PrefiereStatusBlanco ==
    corrida.estado = "ok" =>
        \A k \in 1..Len(corrida.hojas.Consolidado) :
            LET r == corrida.hojas.Consolidado[k]
                G == GrupoMaestro(r.cuit, r.aseguradora)
                i == r.contrato[1]
            IN  /\ i \in G
                /\ (\E j \in G : StatusBlanco(j)) =>
                      i = Min({j \in G : StatusBlanco(j)})
                /\ ~(\E j \in G : StatusBlanco(j)) => i = Min(G)
                /\ (r.estado = "Vigente") <=> VigenteSegunSpec(i)

\* a pair with a non-blank row first and a blank row after it, joined
C6_Testigo ==
    /\ corrida.estado = "ok"
    /\ \E k \in 1..Len(corrida.hojas.Consolidado) :
          LET r == corrida.hojas.Consolidado[k]
              G == GrupoMaestro(r.cuit, r.aseguradora)
          IN  /\ Cardinality(G) >= 2
              /\ ~StatusBlanco(Min(G))
              /\ r.contrato[1] # Min(G)
              /\ r.estado = "Vigente"

\* C7: a matched extract row is in Consolidado if and only if its line of
\* business is not Domestica and its aggregated debt is >= 1000 or < 0
C7_FiltrosDeNegocio ==
    corrida.estado = "ok" =>
        \A j \in 1..Len(corrida.deudas) :
            LET d == corrida.deudas[j]
                G == GrupoMaestro(d.cuit, d.origen)
            IN  G # {} =>
                  /\ (FilasPar(corrida.hojas.Consolidado, d.cuit, d.origen) # {})
                        <=> PasaFiltros(d, Elegida(G))
                  /\ d.deuda \in {<<0>>, <<999>>} =>
                        FilasPar(corrida.hojas.Consolidado, d.cuit, d.origen) = {}
                  /\ (d.deuda \in {<<1000>>, <<-50>>}
                      /\ Casefold(Strip(AStr(maestro[Elegida(G)].ramo))) # "domestica") =>
                        FilasPar(corrida.hojas.Consolidado, d.cuit, d.origen) # {}

\* a matched row with debt exactly 1000 in Consolidado
C7_Testigo ==
    /\ corrida.estado = "ok"
    /\ \E k \in 1..Len(corrida.hojas.Consolidado) :
          corrida.hojas.Consolidado[k].deuda = <<1000>>

CostoMaestro(i) == _to_number_ar_series(maestro[i].costo)

\* C8 (as claimed): a Consolidado row whose master monthly cost is blank, zero
\* or negative has Costo mensual and Q blank
C8_CostoNoPositivoDejaVacios ==
    corrida.estado = "ok" =>
        \A k \in 1..Len(corrida.hojas.Consolidado) :
            LET r == corrida.hojas.Consolidado[k]
                c == CostoMaestro(r.contrato[1])
            IN  (c = <<>> \/ c[1] <= 0) => (r.costo = <<>> /\ r.q = <<>>)

\* a row without the Capitas column of "Agregar costo mensual"
SinCapitas(r) ==
    [razon |-> r.razon, cuit |-> r.cuit, contrato |-> r.contrato,
     aseguradora |-> r.aseguradora, deuda |-> r.deuda, costo |-> r.costo,
     q |-> r.q, estado |-> r.estado, email |-> r.email,
     noContactar |-> r.noContactar, productor |-> r.productor,
     premier |-> r.premier, clienteImp |-> r.clienteImp]

\* sheet h is a sub-selection of base: every row of it is a row of base, no
\* more often than in base, and is no row of nc
SubSeleccion(h, base, nc) ==
    LET hh == Mapear(h, SinCapitas)
    IN  \A i \in 1..Len(hh) :
           /\ hh[i] \in Rango(base)
           /\ Veces(hh, hh[i]) <= Veces(base, hh[i])
           /\ hh[i] \notin Rango(nc)

DerivadasSubSeleccion(hs) ==
    /\ SubSeleccion(hs.SinMail, hs.Consolidado, hs.NoCruzan)
    /\ SubSeleccion(hs.Anuladas, hs.Consolidado, hs.NoCruzan)
    /\ SubSeleccion(hs.NoContactar, hs.Consolidado, hs.NoCruzan)
    /\ SubSeleccion(hs.ClientesImportantes, hs.Consolidado, hs.NoCruzan)
    /\ SubSeleccion(hs.UnQDeudor, hs.Consolidado, hs.NoCruzan)
    /\ SubSeleccion(hs.Premier, hs.Consolidado, hs.NoCruzan)
    /\ SubSeleccion(hs.Productor, hs.Consolidado, hs.NoCruzan)
    /\ SubSeleccion(hs.DeudaPromecor, hs.Consolidado, hs.NoCruzan)
    /\ SubSeleccion(hs.AgregarCostoMensual, hs.Consolidado, hs.NoCruzan)

\* C9 (as claimed): every derived sheet, of generar_xlsx and of
\* derivar_hojas_consolidado, is a sub-selection of Consolidado: its rows are
\* Consolidado rows, none more often than in Consolidado, none of No cruzan
C9_HojasSonSubSeleccion ==
    /\ DerivadasSubSeleccion(corrida.hojas)
    /\ DerivadasSubSeleccion(derivadas)

TieneFilaMaestro(d) == GrupoMaestro(d.cuit, d.origen) # {}

\* C10: No cruzan holds exactly the aggregated (tax id, insurer) extract rows
\* without a master row for the pair, each once and whatever its amount, with
\* every master-derived field blank; no pair is in No cruzan and in Consolidado
C10_NoCruzanExacto ==
    corrida.estado = "ok" =>
        LET nc == corrida.hojas.NoCruzan
            co == corrida.hojas.Consolidado
        IN  /\ \A j \in 1..Len(corrida.deudas) :
                  LET d == corrida.deudas[j]
                      f == FilasPar(nc, d.cuit, d.origen)
                  IN  /\ Cardinality(f) = IF TieneFilaMaestro(d) THEN 0 ELSE 1
                      /\ \A i \in f : nc[i].deuda = d.deuda
            /\ \A i \in 1..Len(nc) :
                  /\ \E j \in 1..Len(corrida.deudas) :
                        /\ corrida.deudas[j].cuit = nc[i].cuit
                        /\ corrida.deudas[j].origen = nc[i].aseguradora
                  /\ nc[i].razon = NA /\ nc[i].contrato = <<>> /\ nc[i].costo = <<>>
                  /\ nc[i].q = <<>> /\ nc[i].estado = NA /\ nc[i].email = NA
                  /\ nc[i].noContactar = NA /\ nc[i].productor = NA
                  /\ nc[i].premier = NA /\ nc[i].clienteImp = NA
                  /\ FilasPar(co, nc[i].cuit, nc[i].aseguradora) = {}

\* a run with a pair in No cruzan whose amount the business filters would
\* drop, beside a pair that is in Consolidado
C10_Testigo ==
    /\ corrida.estado = "ok"
    /\ corrida.hojas.Consolidado # <<>>
    /\ \E i \in 1..Len(corrida.hojas.NoCruzan) :
          /\ corrida.hojas.NoCruzan[i].deuda[1] >= 0
          /\ corrida.hojas.NoCruzan[i].deuda[1] < 1000

-----------------------------------------------------------------------------
(* Properties of the audit store *)

StoreIntacto == lotes = guardado.antes.lotes /\ items = guardado.antes.items

\* C2 (as claimed): a call of guardar_lote_y_items that fails leaves the store
\* as it was: no new lot header, no stored item of the period deleted
C2_TodoONada == guardado.estado = "error" => StoreIntacto

\* the digest of the last call's input is the hash_entrada of a lot that was
\* stored before the call
HashYaPersistido ==
    /\ guardado.estado # "sin_llamar"
    /\ \E i \in 1..Len(guardado.antes.lotes) :
          guardado.antes.lotes[i].hash =
             _calc_hash(guardado.args.periodo_str, guardado.args.hojas.C,
                        guardado.args.hojas.N, guardado.args.hojas.P,
                        guardado.args.archivos_fuente)

NadaEscrito ==
    /\ StoreIntacto
    /\ guardado.estado = "duplicado"
    /\ guardado.duplicado
    /\ guardado.items_creados = 0

\* C3 (as claimed): a call whose input hashes as a persisted lot writes no lot
\* and no item and returns duplicado=True, items_creados=0, also when the
\* call is the one consolidado_view makes
C3_ReenvioNoEscribe == HashYaPersistido => NadaEscrito

\* C3 (amended): the same, for the calls made with calcular_hash=True and
\* evitar_duplicado_por_hash=True; the returned lot is the latest with the hash
C3_ReenvioNoEscribeSiEvita ==
    (/\ HashYaPersistido
     /\ guardado.args.calcular_hash
     /\ guardado.args.evitar_duplicado_por_hash)
    => /\ NadaEscrito
       /\ guardado.lote \in {guardado.antes.lotes[i].id : i \in 1..Len(guardado.antes.lotes)}

\* a second call with the input of a stored lot that has items, answered as a
\* duplicate
C3_Testigo ==
    /\ HashYaPersistido
    /\ guardado.args.evitar_duplicado_por_hash
    /\ guardado.estado = "duplicado"
    /\ guardado.antes.items # {}
    /\ guardado.args.hojas.C # <<>>

-----------------------------------------------------------------------------
(* Properties of the mail task *)

TareaTerminada == tarea.estado \in {"retorno", "excepcion"}

\* C4 (as claimed): an execution of task_enviar_mails ends by returning, after
\* one send attempt for every id of its list in order, with procesados the
\* number of ids and ok + error = procesados
C4_CadaIdProcesado ==
    TareaTerminada =>
        /\ tarea.estado = "retorno"
        /\ tarea.intentos = tarea.ids
        /\ tarea.resumen.procesados = Len(tarea.ids)
        /\ tarea.resumen.ok + tarea.resumen.error = tarea.resumen.procesados

LogsDeEnvio(id, estado) == {n \in 1..Len(logs) : logs[n].envio = id /\ logs[n].estado = estado}

MensajesDeEnvio(id) == {n \in 1..Len(gmail) : gmail[n].envio = id}

\* C15 (as claimed): every send attempt for an envio leaves exactly one
\* EnvioEmailLog for it, "enviado" if Gmail accepted the message and "fallido"
\* otherwise: the records of an envio are as many as its attempts, and the
\* "enviado" ones as many as its messages
C15_UnLogPorIntento ==
    \A id \in DOMAIN envios :
        /\ Cardinality(LogsDeEnvio(id, "enviado")) + Cardinality(LogsDeEnvio(id, "fallido"))
              = Veces(tarea.intentos, id)
        /\ Cardinality(LogsDeEnvio(id, "enviado")) = Cardinality(MensajesDeEnvio(id))

-----------------------------------------------------------------------------
(* Properties of the views *)

EmailVacioSegunSpec(e) == Casefold(Strip(AStr(e))) \in {"", "nan", "none"}

\* the conditions of the Deuda Promecor view on a Consolidado row
CumpleDeudaPromecor(r) ==
    /\ Upper(Strip(FillNa(r.productor))) = "PROMECOR"
    /\ r.q # <<>> /\ r.q[1] > 100
    /\ r.estado = "Vigente"
    /\ ~_as_bool(r.clienteImp)
    /\ ~_as_bool(r.noContactar)
    /\ r.premier = "No es Premier"
    /\ ~EmailVacioSegunSpec(r.email)
    /\ r.deuda # <<>> /\ r.deuda[1] >= 1000

\* the positions of the rows of base that sheet h holds
Posiciones(base, h) == {i \in 1..Len(base) : base[i] \in Rango(h)}

\* C11 (as claimed): Deuda Promecor of generar_xlsx holds exactly the
\* Consolidado rows that meet the conditions of the view, and
\* derivar_hojas_consolidado selects the same rows of the same base table
C11_DeudaPromecorIgual ==
    corrida.estado = "ok" =>
        /\ corrida.hojas.DeudaPromecor =
              SelectSeq(corrida.hojas.Consolidado, CumpleDeudaPromecor)
        /\ derivadas # HojasVacias =>
              Posiciones(derivadas.Consolidado, derivadas.DeudaPromecor) =
                 Posiciones(corrida.hojas.Consolidado, corrida.hojas.DeudaPromecor)

\* the first half of C11 alone: df_deuda_promecor against the conditions
C11_SoloGenerarXlsx ==
    corrida.estado = "ok" =>
        corrida.hojas.DeudaPromecor =
           SelectSeq(corrida.hojas.Consolidado, CumpleDeudaPromecor)

\* the master row has no producer: both producer cells are missing or blank
ProductorBlanco(i) ==
    /\ maestro[i].productor1 = NA \/ Strip(maestro[i].productor1) = ""
    /\ maestro[i].productor2 = NA \/ Strip(maestro[i].productor2) = ""

\* the conditions of Deuda Promecor other than the producer
CumpleRestoDeudaPromecor(r) ==
    /\ r.q # <<>> /\ r.q[1] > 100
    /\ r.estado = "Vigente"
    /\ ~_as_bool(r.clienteImp)
    /\ ~_as_bool(r.noContactar)
    /\ r.premier = "No es Premier"
    /\ ~EmailVacioSegunSpec(r.email)
    /\ r.deuda # <<>> /\ r.deuda[1] >= 1000

\* C12 (as claimed): a Consolidado row whose master row has a blank or missing
\* producer has Productor "PROMECOR", is not in the Productor view, and is in
\* Deuda Promecor when it meets the other conditions of that view
C12_ProductorBlancoEsPromecor ==
    corrida.estado = "ok" =>
        \A k \in 1..Len(corrida.hojas.Consolidado) :
            LET r == corrida.hojas.Consolidado[k]
                G == GrupoMaestro(r.cuit, r.aseguradora)
            IN  (G # {} /\ ProductorBlanco(Elegida(G))) =>
                  /\ r.productor = "PROMECOR"
                  /\ r \notin Rango(corrida.hojas.Productor)
                  /\ CumpleRestoDeudaPromecor(r) => r \in Rango(corrida.hojas.DeudaPromecor)

\* the part of C12 that the code meets: a producer cell holding the empty text
C12_ProductorTextoVacio ==
    corrida.estado = "ok" =>
        \A k \in 1..Len(corrida.hojas.Consolidado) :
            LET r == corrida.hojas.Consolidado[k]
                G == GrupoMaestro(r.cuit, r.aseguradora)
            IN  (G # {} /\ maestro[Elegida(G)].productor2 = "") =>
                  /\ r.productor = "PROMECOR"
                  /\ r \notin Rango(corrida.hojas.Productor)

-----------------------------------------------------------------------------
(* Properties of the reader *)

\* the raw rows of folder c whose tax id normalises to cuit
FilasCrudas(c, cuit) ==
    SelectSeq(carpetas[c].filas, LAMBDA f : _norm_cuit_str(f.cuit) = cuit)

\* their amounts added up, an unparseable amount as zero
SumaCruda(c, cuit) ==
    Suma(Mapear(FilasCrudas(c, cuit), LAMBDA f : IF f.deuda = <<>> THEN 0 ELSE f.deuda[1]))

-----------------------------------------------------------------------------
(* Properties of the derived columns *)

\* C14: a Consolidado row whose master cost c is positive has Q = d / c to the
\* nearest hundredth (2500 / 1000 gives 2.50); if besides the status is
\* blank, the referral "PREMIER", the email not empty and do-not-contact
\* unset, it is "Vigente" and "Premier", is in the Premier view and in none of
\* Sin mail, No contactar and Deuda Promecor
C14_QYPremier ==
    corrida.estado = "ok" =>
        \A k \in 1..Len(corrida.hojas.Consolidado) :
            LET r == corrida.hojas.Consolidado[k]
                G == GrupoMaestro(r.cuit, r.aseguradora)
                i == Elegida(G)
                c == CostoMaestro(i)
            IN  (G # {} /\ c # <<>> /\ c[1] > 0) =>
                  /\ r.q # <<>>
                  /\ 2 * Abs(100 * r.deuda[1] - r.q[1] * c[1]) <= c[1]
                  /\ (r.deuda = <<2500>> /\ c = <<1000>>) => r.q = <<250>>
                  /\ (/\ StatusBlanco(i)
                      /\ maestro[i].referido = "PREMIER"
                      /\ ~EmailVacioSegunSpec(maestro[i].email)
                      /\ ~_as_bool(maestro[i].noContactar)) =>
                        /\ r.estado = "Vigente"
                        /\ r.premier = "Premier"
                        /\ r \in Rango(corrida.hojas.Premier)
                        /\ r \notin Rango(corrida.hojas.SinMail)
                        /\ r \notin Rango(corrida.hojas.NoContactar)
                        /\ r \notin Rango(corrida.hojas.DeudaPromecor)

\* a Premier row with debt 2500 and cost 1000 in the Premier view
C14_Testigo ==
    /\ corrida.estado = "ok"
    /\ \E k \in 1..Len(corrida.hojas.Premier) :
          /\ corrida.hojas.Premier[k].deuda = <<2500>>
          /\ corrida.hojas.Premier[k].costo = <<1000>>
          /\ corrida.hojas.Premier[k].q = <<250>>
          /\ maestro[1].referido = "PREMIER"

\* a quotient that is not exact in hundredths: -50 / 3000 gives -0.02
C14_TestigoRedondeo ==
    /\ corrida.estado = "ok"
    /\ \E k \in 1..Len(corrida.hojas.Consolidado) :
          /\ corrida.hojas.Consolidado[k].deuda = <<-50>>
          /\ corrida.hojas.Consolidado[k].costo = <<3000>>
          /\ corrida.hojas.Consolidado[k].q = <<-2>>

-----------------------------------------------------------------------------
(* Properties of the workbook *)

\* the tax ids of a table, as texts
Cuits(h) == {h[i].cuit : i \in 1..Len(h)}

\* C16 (as claimed): the Consolidado sheet read back from the workbook has as
\* many rows as the base table and the same set of 11-digit tax ids
C16_IdaYVuelta ==
    releido.estado = "leido" =>
        /\ Len(releido.Consolidado) = Len(corrida.hojas.Consolidado)
        /\ Cuits(releido.Consolidado) = Cuits(corrida.hojas.Consolidado)

\* the part of C16 that the code meets: the rows are as many
C16_MismaCantidad ==
    releido.estado = "leido" =>
        Len(releido.Consolidado) = Len(corrida.hojas.Consolidado)

-----------------------------------------------------------------------------
(* Properties of the period normalisers *)

\* the documented shapes MM-YYYY, YYYY-MM, YYYY/MM and YYYY-MM-DD
FormasDePeriodo ==
    {D(2) \o <<{"-"}>> \o D(4),
     D(4) \o <<{"-"}>> \o D(2),
     D(4) \o <<{"/"}>> \o D(2),
     D(4) \o <<{"-"}>> \o D(2) \o <<{"-"}>> \o D(2)}

TieneForma(e) == \E f \in FormasDePeriodo : fullmatch(f, e)

\* the month and the year a text of a documented shape names
MesDe(e) ==
    IF Len(e) = 7 /\ e[3] = "-" THEN ValorEntero(SubSeq(e, 1, 2))
    ELSE ValorEntero(SubSeq(e, 6, 7))

AnioDe(e) ==
    IF Len(e) = 7 /\ e[3] = "-" THEN ValorEntero(SubSeq(e, 4, 7))
    ELSE ValorEntero(SubSeq(e, 1, 4))

\* a text of a documented shape that names a month of the calendar
PeriodoBienFormado(e) == TieneForma(e) /\ MesDe(e) \in 1..12

\* the result r of the normaliser f is the first day of month m of year y:
\* a date for the two parsers, the text MM-YYYY for _norm_periodo
EsPrimerDia(f, r, m, y) ==
    /\ ~r.error
    /\ IF f = "_norm_periodo"
       THEN /\ fullmatch(D(2) \o <<{"-"}>> \o D(4), r.texto)
            /\ ValorEntero(SubSeq(r.texto, 1, 2)) = m
            /\ ValorEntero(SubSeq(r.texto, 4, 7)) = y
       ELSE r.anio = y /\ r.mes = m /\ r.dia = 1

NormalizadoresDePeriodo == {"_norm_periodo", "_parse_periodo", "parse_periodo_any"}

PeriodoNormalizado ==
    calculo.funcion \in NormalizadoresDePeriodo /\ calculo.salidas # <<>>

\* the claim for the normalisers of the set F
PeriodoSegunSpec(F) ==
    (PeriodoNormalizado /\ calculo.funcion \in F) =>
        LET e == calculo.entrada
            r == calculo.salidas[1]
        IN  /\ PeriodoBienFormado(e) =>
                  EsPrimerDia(calculo.funcion, r, MesDe(e), AnioDe(e))
            /\ ~TieneForma(strip(e)) => r.error

\* C17: each of _norm_periodo, _parse_periodo and parse_periodo_any maps a
\* text of the shapes MM-YYYY, YYYY-MM, YYYY/MM, YYYY-MM-DD to the first day
\* of the month and year it names, and raises an error on a text of any
\* other shape
C17_TodosIgualYErrorEnOtraForma == PeriodoSegunSpec(NormalizadoresDePeriodo)

\* what holds: parse_periodo_any alone does so
C17_SoloParsePeriodoAny == PeriodoSegunSpec({"parse_periodo_any"})

\* what holds: on a well formed MM-YYYY the three agree
C17_AcuerdoEnMMYYYY ==
    (PeriodoNormalizado /\ fullmatch(D(2) \o <<{"-"}>> \o D(4), calculo.entrada)
        /\ MesDe(calculo.entrada) \in 1..12) =>
        EsPrimerDia(calculo.funcion, calculo.salidas[1],
                    MesDe(calculo.entrada), AnioDe(calculo.entrada))

\* _norm_periodo returns a value for YYYY-MM that names no month
C17_NormPeriodoDevuelveAnioComoMes ==
    /\ calculo.funcion = "_norm_periodo"
    /\ calculo.entrada = <<"2", "0", "2", "5", "-", "0", "3">>
    /\ calculo.salidas = <<[error |-> FALSE,
                            texto |-> <<"2", "0", "2", "5", "-", "0", "3">>]>>

\* _parse_periodo raises on YYYY-MM-DD
C17_ParsePeriodoRechazaFecha ==
    /\ calculo.funcion = "_parse_periodo"
    /\ calculo.entrada = <<"2", "0", "2", "5", "-", "0", "3", "-", "0", "1">>
    /\ calculo.salidas = <<ValueError>>

\* _parse_periodo returns a date for a text of no documented shape
C17_ParsePeriodoAceptaOtraForma ==
    /\ calculo.funcion = "_parse_periodo"
    /\ calculo.entrada = <<"0", "3", "-", "2", "5">>
    /\ calculo.salidas = <<date(25, 3)>>


-----------------------------------------------------------------------------
(* Properties of the amount parsers *)

\* the amount a text denotes by the documented rule: symbols and blanks do
\* not count, parentheses or a minus sign make it negative, a comma after the
\* last period is the decimal separator and the periods group thousands,
\* otherwise the period is the decimal separator and the commas group
\* thousands; no value for a text that is not a number
ImporteSegunSpec(e) ==
    LET neg  == \E i \in 1..Len(e) : e[i] \in {"(", "-"}
        s    == SelectSeq(e, LAMBDA c : c \in Digitos \cup {",", "."})
        t    == IF UltimaPosicion(s, ",") > UltimaPosicion(s, ".")
                THEN replace(quitar(s, {"."}), ",", ".")
                ELSE quitar(s, {","})
    IN  IF EsDecimal(t)
        THEN LET v == ValorDecimal(t) IN Numero(neg, v.entero, v.frac)
        ELSE NaN

ImporteParseado(f) == calculo.funcion = f /\ calculo.salidas # <<>>

\* C18: the parsed amount takes the comma as decimal separator only when it
\* comes after the last period and otherwise the period; a parenthesized
\* amount is negative; an empty or unparseable text gives no value
C18_ImporteSegunSpec ==
    ImporteParseado("_to_number_ar_series") =>
        calculo.salidas[1] = ImporteSegunSpec(calculo.entrada)

\* the same statement for to_decimal of the dashboard command, to the cent
C18_ToDecimalSegunSpec ==
    ImporteParseado("to_decimal") =>
        calculo.salidas[1] = quantize(ImporteSegunSpec(calculo.entrada))

TieneParentesis(e) == \E i \in 1..Len(e) : e[i] \in {"(", ")"}

ComaAntesDePunto(e) ==
    UltimaPosicion(e, ",") # -1 /\ UltimaPosicion(e, ",") < UltimaPosicion(e, ".")

MenosAlFinal(e) == UltimaPosicion(e, "-") > 1

\* what holds: without parentheses, without a comma before a period and
\* without a minus sign inside, _to_number_ar_series follows the rule
C18_ReglaSinParentesisNiComaDeMiles ==
    (ImporteParseado("_to_number_ar_series") /\ ~TieneParentesis(calculo.entrada)
        /\ ~ComaAntesDePunto(calculo.entrada) /\ ~MenosAlFinal(calculo.entrada)) =>
        calculo.salidas[1] = ImporteSegunSpec(calculo.entrada)

\* "$ 1.234.567,89" gives 1234567.89 and "1234.56" gives 1234.56
C18_EjemplosQueValen ==
    ImporteParseado("_to_number_ar_series") =>
        /\ calculo.entrada = <<"$", " ", "1", ".", "2", "3", "4", ".", "5", "6",
                               "7", ",", "8", "9">>
              => calculo.salidas[1] = Numero(FALSE, 1234567, <<"8", "9">>)
        /\ calculo.entrada = <<"1", "2", "3", "4", ".", "5", "6">>
              => calculo.salidas[1] = Numero(FALSE, 1234, <<"5", "6">>)

\* "1,234.56" gives 1.23456
C18_ComaDeMilesComoDecimal ==
    /\ ImporteParseado("_to_number_ar_series")
    /\ calculo.entrada = <<"1", ",", "2", "3", "4", ".", "5", "6">>
    /\ calculo.salidas[1] = Numero(FALSE, 1, <<"2", "3", "4", "5", "6">>)

\* "(500)" gives 500
C18_ParentesisPositivo ==
    /\ ImporteParseado("_to_number_ar_series")
    /\ calculo.entrada = <<"(", "5", "0", "0", ")">>
    /\ calculo.salidas[1] = Numero(FALSE, 500, <<>>)


-----------------------------------------------------------------------------
(* Properties of the tax id normaliser *)

CuitNormalizado == calculo.funcion = "_norm_cuit_str" /\ calculo.salidas # <<>>

\* C19: _norm_cuit_str returns exactly 11 characters, all digits, for any
\* cell, and applied to its own result it returns that result unchanged
C19_OnceDigitosEIdempotente ==
    CuitNormalizado =>
        /\ \A i \in 1..Len(calculo.salidas) :
              Len(calculo.salidas[i]) = 11 /\ SoloDigitos(calculo.salidas[i])
        /\ \A i \in 2..Len(calculo.salidas) :
              calculo.salidas[i] = calculo.salidas[i - 1]

\* a cell of more than eleven digits with separators, normalised twice
C19_Testigo ==
    /\ CuitNormalizado
    /\ Len(calculo.salidas) >= 2
    /\ Len(SelectSeq(calculo.entrada, LAMBDA c : c \in Digitos)) > 11
    /\ \E i \in 1..Len(calculo.entrada) : calculo.entrada[i] \notin Digitos
    /\ calculo.salidas[1] # calculo.entrada

\* a cell without any digit, normalised twice
C19_TestigoSinDigitos ==
    /\ CuitNormalizado
    /\ Len(calculo.salidas) >= 2
    /\ calculo.entrada = <<"n", "a", "n">>
    /\ calculo.salidas[2] = Repetir("0", 11)


-----------------------------------------------------------------------------
(* Properties of the state of a notice *)

IntentadoUnaVez(id) == id \in DOMAIN envios /\ Veces(tarea.intentos, id) = 1

\* the messages Gmail accepted for the envio id
AceptadosPorGmail(id) == {i \in 1..Len(gmail) : gmail[i].envio = id}

\* C20: after the task has processed an envio, its estado is ENVIADO if and
\* only if Gmail accepted the message in that attempt, and then message_id is
\* the id Gmail returned and detalle_error is empty; its estado is ERROR only
\* when no message was sent for it, also when a step after the send fails
C20_EnviadoSiiGmailAcepto ==
    \A id \in DOMAIN envios :
        IntentadoUnaVez(id) =>
            /\ envios[id].estado = "ENVIADO" <=> AceptadosPorGmail(id) # {}
            /\ AceptadosPorGmail(id) # {} =>
                  /\ \E i \in AceptadosPorGmail(id) :
                        envios[id].message_id = gmail[i].message_id
                  /\ envios[id].detalle_error = ""
            /\ envios[id].estado = "ERROR" => AceptadosPorGmail(id) = {}

\* what holds: an envio in estado ENVIADO was accepted by Gmail, carries the
\* id Gmail returned and no error text
C20_EnviadoImplicaAceptado ==
    \A id \in DOMAIN envios :
        (IntentadoUnaVez(id) /\ envios[id].estado = "ENVIADO") =>
            /\ \E i \in AceptadosPorGmail(id) :
                  envios[id].message_id = gmail[i].message_id
            /\ envios[id].detalle_error = ""

\* an envio in estado ERROR whose message Gmail accepted, in a task that
\* went on to its end
C20_ErrorTrasEnvio ==
    /\ tarea.estado = "retorno"
    /\ \E id \in DOMAIN envios :
          /\ IntentadoUnaVez(id)
          /\ envios[id].estado = "ERROR"
          /\ AceptadosPorGmail(id) # {}


-----------------------------------------------------------------------------
(* Properties of the replacement of a period *)

PeriodoGuardado == _parse_periodo(guardado.args.periodo_str)

ReemplazoLogrado == guardado.estado = "ok" /\ guardado.args.reemplazar_periodo

\* C22: after guardar_lote_y_items succeeds with reemplazar_periodo=True for
\* period P, every stored item of period P belongs to the lot just created,
\* and the items of every other period are the ones stored before the call
C22_ReemplazaSoloElPeriodo ==
    ReemplazoLogrado =>
        /\ \A x \in items : x.periodo = PeriodoGuardado => x.lote = guardado.lote
        /\ {x \in items : x.periodo # PeriodoGuardado}
              = {x \in guardado.antes.items : x.periodo # PeriodoGuardado}

\* a replacement with rows, on a store that held items of the period from an
\* earlier lot and items of another period
C22_Testigo ==
    /\ ReemplazoLogrado
    /\ guardado.items_creados > 0
    /\ \E x \in guardado.antes.items : x.periodo = PeriodoGuardado
    /\ \E x \in guardado.antes.items : x.periodo # PeriodoGuardado
    /\ \E x \in items : x.periodo # PeriodoGuardado


-----------------------------------------------------------------------------
(* The panel: management command volcar_dashboard_art, and the POST of       *)
(* consolidado_view that saves a run and then calls the command.  A row of   *)
(* the panel is [periodo, clave]: clave stands for (cuit, contrato,          *)
(* aseguradora); every stored item of the model has the three.               *)

\* options.get(key): the keys of options are the dest names of argparse
options_get(options, key) == IF key \in DOMAIN options THEN options[key] ELSE None

\* bool(x) of a flag option
bool(x) == x # None /\ x[1]

\* the truth of a text option: given and not empty
DadoTexto(x) == x # None /\ x[1] # <<>>

\* the options a caller passes for --periodo and --reset-periodo; argparse and
\* call_command store them under periodo and reset_periodo
Opciones(periodo, reset) ==
    [desde_lote |-> None, periodo |-> periodo, reset_periodo |-> <<reset>>,
     aseguradora |-> None, productor |-> None]

\* iter_items_filtrados(None, periodo): the stored items whose period is periodo
iter_items_filtrados(its, periodo) ==
    IF periodo = None THEN its ELSE {it \in its : it.periodo = periodo[1]}

\* build_dashboard_row_from_item: the period of the command, else the item's
build_dashboard_row_from_item(it, periodo) ==
    [periodo |-> IF periodo = None THEN it.periodo ELSE periodo[1], clave |-> it.clave]

\* update_or_create by (periodo, cuit, contrato, aseguradora) for every item
Volcados(its, periodo) == {build_dashboard_row_from_item(it, periodo) : it \in its}

\* Command.handle on the panel rows filas and the stored items its: the rows
\* it leaves and how it ends
handle(filas, its, options) ==
    LET periodo_cli   == options_get(options, "periodo")
        reset_periodo == bool(options_get(options, "reset-periodo"))
        parsed        == IF DadoTexto(periodo_cli) THEN parse_periodo_any(periodo_cli[1])
                         ELSE ValueError
        periodo_date  == IF DadoTexto(periodo_cli) /\ ~parsed.error THEN <<parsed>> ELSE None
        sel           == iter_items_filtrados(its, periodo_date)
        filas1        == IF reset_periodo
                         THEN {r \in filas : r.periodo # periodo_date[1]}
                         ELSE filas
    IN  IF DadoTexto(periodo_cli) /\ parsed.error
        THEN [filas |-> filas, estado |-> "CommandError", periodo |-> None]
        ELSE IF reset_periodo /\ periodo_date = None
        THEN [filas |-> filas, estado |-> "CommandError", periodo |-> None]
        ELSE IF sel = {}
        THEN [filas |-> filas, estado |-> "sin_items", periodo |-> periodo_date]
        ELSE [filas |-> filas1 \cup Volcados(sel, periodo_date), estado |-> "ok",
              periodo |-> periodo_date]

MaxVolcados == 2

Volcar(its, options, via) ==
    LET r == handle(tablero.filas, its, options)
    IN  tablero' = [filas |-> r.filas, n |-> tablero.n + 1, via |-> via,
                    reset_pedido |-> bool(options.reset_periodo),
                    periodo |-> r.periodo, estado |-> r.estado,
                    antes |-> tablero.filas]

PeriodosComando ==
    {None, <<Chars("03-2025")>>, <<Chars("04-2025")>>,
     <<<<"2", "0", "2", "5", "-", "0", "3">>>>, <<<<"m", "a", "r", "z", "o">>>>}

\* python manage.py volcar_dashboard_art [--periodo P] [--reset-periodo]
VolcarDashboardArt ==
    /\ tablero.n < MaxVolcados
    /\ \E p \in PeriodosComando, reset \in BOOLEAN :
          Volcar(items, Opciones(p, reset), "cli")
    /\ UNCHANGED <<varsConsol, varsStore, varsMail, varsTexto, sesion, cola, pedido, sync>>

\* the month input of the form: yyyy-mm
PeriodosForm ==
    {<<"2", "0", "2", "5", "-", "0", "3">>, <<"2", "0", "2", "5", "-", "0", "4">>}

\* POST of consolidado_view after generar_xlsx: the period texts, the save
\* that replaces the period and, if the save did not raise, the command with
\* periodo=yyyy-mm and reset_periodo=True; an exception of either is swallowed
ConsolidadoViewPost ==
    /\ guardado.n < MaxLlamadas
    /\ \E yyyy_mm \in PeriodosForm, h \in HojasStore :
          LET partes          == split(yyyy_mm, "-")
              periodo         == partes[2] \o <<"-">> \o partes[1]
              periodo_for_cmd == partes[1] \o <<"-">> \o partes[2]
          IN  /\ Guardar([periodo_str |-> Cadena(periodo), hojas |-> h,
                          archivos_fuente |-> "{}", calcular_hash |-> TRUE,
                          evitar_duplicado_por_hash |-> FALSE,
                          reemplazar_periodo |-> TRUE], "view")
              /\ IF guardado'.estado = "error"
                 THEN UNCHANGED tablero
                 ELSE Volcar(items', Opciones(<<periodo_for_cmd>>, TRUE), "view")
    /\ UNCHANGED <<varsConsol, varsMail, varsTexto, sesion, cola, pedido, sync>>

InitTablero ==
    /\ ConsolSinUso
    /\ StoreVacio
    /\ MailVacio
    /\ TextoSinUso
    /\ OtrosSinUso

NextTablero ==
    \/ ConsolidadoViewPost
    \/ VolcarDashboardArt

SpecTablero == InitTablero /\ [][NextTablero]_vars

-----------------------------------------------------------------------------
(* Properties of the panel *)

\* the rows of period P that the stored items of P give
DerivadasDeItems(P) == {[periodo |-> P, clave |-> it.clave] : it \in {x \in items : x.periodo = P}}

VolcadoConReset ==
    /\ tablero.estado \in {"ok", "sin_items"}
    /\ tablero.reset_pedido
    /\ tablero.periodo # None

\* C21: after the dump has run for period P with reset-periodo, the panel
\* rows of P are exactly those derived from the items stored for P (a row of
\* an earlier run whose key is no longer stored is gone) and the rows of
\* other periods are untouched
C21_TableroIgualAItems ==
    VolcadoConReset =>
        LET P == tablero.periodo[1]
        IN  /\ {r \in tablero.filas : r.periodo = P} = DerivadasDeItems(P)
            /\ {r \in tablero.filas : r.periodo # P}
                  = {r \in tablero.antes : r.periodo # P}

\* what holds: every item stored for P has its row, and other periods are
\* untouched
C21_ItemsVolcadosYOtrosIntactos ==
    (VolcadoConReset /\ tablero.estado = "ok") =>
        LET P == tablero.periodo[1]
        IN  /\ DerivadasDeItems(P) \subseteq tablero.filas
            /\ {r \in tablero.filas : r.periodo # P}
                  = {r \in tablero.antes : r.periodo # P}

\* after a POST of the view a row stays whose key is no longer stored
C21_FilaViejaQueda ==
    /\ VolcadoConReset
    /\ tablero.via = "view"
    /\ tablero.estado = "ok"
    /\ \E r \in tablero.filas :
          r.periodo = tablero.periodo[1] /\ r \notin DerivadasDeItems(r.periodo)


-----------------------------------------------------------------------------
(* Properties of repeated sends and of the do-not-contact flag *)

\* C25: no EnvioDeudaART is e-mailed more than once, also when the task runs
\* again with an id whose envio is already ENVIADO
C25_UnSoloMensajePorEnvio ==
    \A id \in DOMAIN envios : Cardinality(AceptadosPorGmail(id)) <= 1

\* what holds: an envio attempted once has at most one message
C25_UnMensajePorIntento ==
    \A id \in DOMAIN envios :
        Cardinality(AceptadosPorGmail(id)) <= Veces(tarea.intentos, id)

\* an envio already ENVIADO is processed again and Gmail accepts a second
\* message for it
C25_SegundoMensaje ==
    \E id \in DOMAIN envios :
        /\ envios[id].estado = "ENVIADO"
        /\ Veces(tarea.intentos, id) = 2
        /\ Cardinality(AceptadosPorGmail(id)) = 2

\* the sheets the wizard sends mails from (HOJA_ALIAS_MAP)
HojasDeEnvio == corrida.hojas.Productor \o corrida.hojas.DeudaPromecor

\* C26: no Consolidado row with No contactar = true is in a sheet from which
\* mails are sent (Productor, Deuda Promecor)
C26_NoContactarFueraDeEnvio ==
    corrida.estado = "ok" =>
        \A i \in 1..Len(HojasDeEnvio) : ~_as_bool(HojasDeEnvio[i].noContactar)

\* what holds: the sheet Deuda Promecor has no such row
C26_DeudaPromecorSinNoContactar ==
    corrida.estado = "ok" =>
        \A i \in 1..Len(corrida.hojas.DeudaPromecor) :
            ~_as_bool(corrida.hojas.DeudaPromecor[i].noContactar)

\* a row flagged No contactar in the sheet Productor
C26_NoContactarEnProductor ==
    /\ corrida.estado = "ok"
    /\ \E i \in 1..Len(corrida.hojas.Productor) :
          _as_bool(corrida.hojas.Productor[i].noContactar)


-----------------------------------------------------------------------------
(* The send wizard: enviar_mails_art and the worker that runs its tasks *)

Respuesta(tipo, respuesta) ==
    pedido' = [n |-> pedido.n + 1, tipo |-> tipo, respuesta |-> respuesta]

\* GET with reset=1
EnviarMailsArtReset ==
    /\ pedido.n < MaxPedidos
    /\ sesion' = _reset_session(sesion)
    /\ Respuesta("reset", "redirect")
    /\ UNCHANGED <<varsConsol, varsStore, varsMail, varsTexto, tablero, cola, sync>>

\* POST of the first step: the sheet is read, grouped and kept in the session
EnviarMailsArtPaso1 ==
    /\ pedido.n < MaxPedidos
    /\ \/ /\ Respuesta("paso1", "error_lectura")
          /\ UNCHANGED sesion
       \/ \E n1 \in 0..MaxFilasGrupo, n2 \in 0..1, q \in {200, 300},
             hoja \in {"Deuda Promecor", "Productor"} :
             /\ sesion' = [k \in DOMAIN sesion \cup ClavesEnvio |->
                             CASE k = "envio_grupos" ->
                                    GruposDeSesion(cargar_consolidado(<<n1, n2>>, q))
                               [] k = "envio_periodo" -> "03/2025"
                               [] k = "envio_hoja" -> hoja
                               [] OTHER -> sesion[k]]
             /\ Respuesta("paso1", "redirect")
    /\ UNCHANGED <<varsConsol, varsStore, varsMail, varsTexto, tablero, cola, sync>>

\* POST of the confirm step
EnviarMailsArtConfirmar ==
    /\ pedido.n < MaxPedidos
    /\ LET grupos == session_get(sesion, "envio_grupos")
           periodo == session_get(sesion, "envio_periodo")
           hoja == session_get(sesion, "envio_hoja")
       IN  IF grupos = None \/ grupos[1] = <<>> \/ periodo = None \/ periodo[1] = ""
              \/ hoja = None \/ hoja[1] = ""
           THEN /\ Respuesta("confirmar", "expirada")
                /\ UNCHANGED <<envios, cola, sesion>>
           ELSE \E f \in FallasConfirmar, atomic \in BOOLEAN :
                   LET r == EnviosCreados(envios, grupos[1], f)
                   IN  IF r.exc = ""
                       THEN /\ envios' = r.envios
                            /\ cola' = Append(cola, r.ids)
                            /\ sesion' = _reset_session(sesion)
                            /\ Respuesta("confirmar", "encolado")
                       ELSE /\ envios' = IF atomic THEN envios ELSE r.envios
                            /\ Respuesta("confirmar", "excepcion")
                            /\ UNCHANGED <<cola, sesion>>
    /\ UNCHANGED <<tarea, logs, gmail, varsConsol, varsStore, varsTexto, tablero, sync>>

\* the worker takes the oldest message of the queue and starts the task
WorkerTomaTarea ==
    /\ tarea.estado # "corriendo"
    /\ cola # <<>>
    /\ tarea' = [SinTarea EXCEPT !.n = tarea.n + 1, !.estado = "corriendo",
                                 !.ids = Head(cola)]
    /\ cola' = Tail(cola)
    /\ UNCHANGED <<envios, logs, gmail, varsConsol, varsStore, varsTexto,
                   tablero, sesion, pedido, sync>>

InitWizard ==
    /\ ConsolSinUso
    /\ StoreVacio
    /\ MailVacio
    /\ TextoSinUso
    /\ OtrosSinUso

Worker ==
    \/ WorkerTomaTarea
    \/ ProcesarEnvio
    \/ RetornarResumen

NextWizard ==
    \/ EnviarMailsArtReset
    \/ EnviarMailsArtPaso1
    \/ EnviarMailsArtConfirmar
    \/ WorkerTomaTarea
    \/ ProcesarEnvio
    \/ RetornarResumen

SpecWizard == InitWizard /\ [][NextWizard]_vars

\* the worker runs every enqueued task until it returns or raises
SpecWizardJusto == SpecWizard /\ WF_vars(Worker)


-----------------------------------------------------------------------------
(* Properties of the grouping rule *)

ExplodeHecho == calculo.funcion = "_explode_small_groups" /\ calculo.salidas # <<>>

\* the groups of gs under an email
GruposDeEmail(gs, email) == {k \in 1..Len(gs) : gs[k].email = email}

\* the groups of gs that hold a row
GruposConFila(gs, fila) == {k \in 1..Len(gs) : fila \in Rango(gs[k].filas)}

TotalFilas(gs) == Suma([k \in 1..Len(gs) |-> Len(gs[k].filas)])

\* C24: _explode_small_groups keeps every contract row in exactly one output
\* group, once, under its original email; an email with 3 or more rows gives
\* one group with all its rows, an email with 1 or 2 rows gives one single-row
\* group per row; no output group has exactly 2 rows and the number of rows is
\* the same before and after.
C24_CadaFilaEnUnGrupo ==
    ExplodeHecho =>
       LET ent == calculo.entrada
           sal == calculo.salidas[1]
       IN  /\ \A i \in 1..Len(ent) :
                LET g == ent[i]
                    suyos == GruposDeEmail(sal, g.email)
                IN  /\ \A j \in 1..Len(g.filas) :
                          /\ Cardinality(GruposConFila(sal, g.filas[j])) = 1
                          /\ GruposConFila(sal, g.filas[j]) \subseteq suyos
                          /\ \A k \in suyos : Veces(sal[k].filas, g.filas[j]) <= 1
                    /\ Len(g.filas) >= 3 =>
                          /\ Cardinality(suyos) = 1
                          /\ \A k \in suyos : sal[k].filas = g.filas
                    /\ Len(g.filas) \in {1, 2} =>
                          /\ Cardinality(suyos) = Len(g.filas)
                          /\ \A k \in suyos : Len(sal[k].filas) = 1
           /\ \A k \in 1..Len(sal) : Len(sal[k].filas) # 2
           /\ TotalFilas(sal) = TotalFilas(ent)

\* an email with two rows next to one with three or more has been split
C24_Testigo ==
    /\ ExplodeHecho
    /\ \E i, m \in 1..Len(calculo.entrada) :
          /\ Len(calculo.entrada[i].filas) = 2
          /\ Len(calculo.entrada[m].filas) >= 3
    /\ Len(calculo.salidas[1]) >= 3


-----------------------------------------------------------------------------
(* Properties of the confirm step *)

\* the step is a confirm POST answered by the wizard
ConfirmarRespondido == pedido'.n = pedido.n + 1 /\ pedido'.tipo = "confirmar"

\* the three keys are in the session, none empty
DatosEnSesion ==
    /\ ClavesEnvio \subseteq DOMAIN sesion
    /\ sesion["envio_grupos"] # <<>>
    /\ sesion["envio_periodo"] # ""
    /\ sesion["envio_hoja"] # ""

ContratosDe(g) == [j \in 1..Len(g.filas) |-> g.filas[j].Contrato]

-----------------------------------------------------------------------------
(* Properties of the end of every envio *)

IdsWizard == 1..(MaxPedidos * MaxGrupos)

Cerrado(id) == id \in DOMAIN envios /\ envios[id].estado \in {"ENVIADO", "ERROR"}

Pendiente27(id) == id \in DOMAIN envios /\ envios[id].estado = "PENDIENTE"

\* C27: every EnvioDeudaART created in state PENDIENTE by the wizard is
\* eventually ENVIADO or ERROR, when the worker runs every enqueued task until
\* it returns or raises.
C27_PendienteTermina ==
    \A id \in IdsWizard : Pendiente27(id) ~> Cerrado(id)

\* a task that returns its summary has closed every envio of its list
C27_TareaQueRetornaCierra ==
    tarea.estado = "retorno" => \A i \in 1..Len(tarea.ids) : Cerrado(tarea.ids[i])

\* an envio is PENDIENTE, the queue is empty and no task is running: nothing
\* will ever process it
C27_PendienteSinTarea ==
    /\ cola = <<>>
    /\ tarea.estado # "corriendo"
    /\ \E id \in IdsWizard : Pendiente27(id)

\* the same, after a task raised out of its except block while processing
\* another id of its list
C27_PendienteTrasExcepcion ==
    /\ cola = <<>>
    /\ tarea.estado = "excepcion"
    /\ \E i \in 1..Len(tarea.ids) :
          /\ i > tarea.pos
          /\ Pendiente27(tarea.ids[i])


-----------------------------------------------------------------------------
(* The incremental CRM syncs: Deals, Accounts and Contacts *)

MaxRegistros == 2
MaxPaginas == 3
MaxCorridas == 2
PER_PAGE == 2
BULK_IDS_CHUNK == 2

Modulos == {"Deals", "Accounts", "Contacts"}

\* the records of the CRM: the Modified_Time of a record is its id
Modified_Time(id) == id

\* the data of a page: consecutive records, PER_PAGE at most
Bloques ==
    {[i \in 1..n |-> a + i - 1] : a \in 1..MaxRegistros, n \in 0..PER_PAGE}
       \cap SeqsUpTo(1..MaxRegistros, PER_PAGE)

\* what the server answers to a page request
Respuestas ==
    [tipo : {"204", "http_error", "excepcion"}, data : {<<>>}, more_records : {FALSE},
     con_token : {FALSE}]
       \cup [tipo : {"200"}, data : Bloques, more_records : BOOLEAN, con_token : BOOLEAN]

EsSearch(page_token) == page_token # None /\ page_token[1].ep = "search"

\* the list endpoint rejects a token it did not issue
RespuestasLista(page_token) ==
    IF EsSearch(page_token) THEN {r \in Respuestas : r.tipo = "http_error"} ELSE Respuestas

Pagina(exc, data, more_records, next_page_token, pedidas) ==
    [exc |-> exc, data |-> data, more_records |-> more_records,
     next_page_token |-> next_page_token, pedidas |-> pedidas]

\* fetch_page_deals, fetch_page_accounts and fetch_page_ids_since: the listing
fetch_page_list(page_token, r) ==
    LET pedida == <<[ep |-> "list", token |-> page_token]>>
        page == IF page_token = None THEN 1 ELSE page_token[1].page
    IN  CASE r.tipo = "204" -> Pagina("", <<>>, FALSE, None, pedida)
          [] r.tipo = "http_error" -> Pagina("HTTPError", <<>>, FALSE, None, pedida)
          [] r.tipo = "excepcion" -> Pagina("Exception", <<>>, FALSE, None, pedida)
          [] OTHER -> Pagina("", r.data, r.more_records,
                             IF r.con_token
                             THEN <<[ep |-> "list", page |-> page + 1]>> ELSE None,
                             pedida)

\* fetch_page_search: the page is that of a search token, else the first
fetch_page_search(page_token, r) ==
    LET page == IF EsSearch(page_token) THEN page_token[1].page ELSE 1
        pedida == <<[ep |-> "search", token |-> <<[ep |-> "search", page |-> page]>>]>>
    IN  CASE r.tipo = "204" -> Pagina("", <<>>, FALSE, None, pedida)
          [] r.tipo \in {"http_error", "excepcion"} ->
                Pagina("Exception", <<>>, FALSE, None, pedida)
          [] OTHER -> Pagina("", r.data, r.more_records,
                             IF r.more_records
                             THEN <<[ep |-> "search", page |-> page + 1]>> ELSE None,
                             pedida)

\* the listing goes on with the search endpoint after an HTTPError of the list
ConFallback(lista, busqueda) ==
    IF lista.exc = "HTTPError"
    THEN [busqueda EXCEPT !.pedidas = lista.pedidas \o @]
    ELSE lista

\* fetch_page of sync_deals_incremental: a search token goes to the search
fetch_page_deals(page_token, r1, r2) ==
    IF EsSearch(page_token)
    THEN fetch_page_search(page_token, r2)
    ELSE ConFallback(fetch_page_list(page_token, r1), fetch_page_search(None, r2))

\* fetch_page of sync_accounts_incremental: every token goes to the list first
fetch_page_accounts(page_token, r1, r2) ==
    ConFallback(fetch_page_list(page_token, r1), fetch_page_search(None, r2))

Max(a, b) == IF a >= b THEN a ELSE b

RECURSIVE MaxVisto(_, _)
MaxVisto(max_modified_seen, data) ==
    IF data = <<>> THEN max_modified_seen
    ELSE MaxVisto(Max(max_modified_seen, Modified_Time(Head(data))), Tail(data))

SyncSinCorrer(modulo, cursor) ==
    [modulo |-> modulo, cursor |-> cursor, corridas |-> 0, estado |-> "sin_correr",
     since |-> 0, page_token |-> None, more |-> TRUE, ids_buffer |-> <<>>,
     max_modified_seen |-> 0, listados |-> {}, upserted |-> {}, pedidas |-> <<>>,
     cursor_antes |-> cursor]

\* main up to the loop: the cursor is read and the loop variables are set
IniciarSync ==
    /\ sync.estado \in {"sin_correr", "terminado", "abortado"}
    /\ sync.corridas < MaxCorridas
    /\ sync' = [SyncSinCorrer(sync.modulo, sync.cursor) EXCEPT
                  !.corridas = sync.corridas + 1,
                  !.estado = "listando",
                  !.since = sync.cursor,
                  !.max_modified_seen = sync.cursor]
    /\ UNCHANGED <<varsConsol, varsStore, varsMail, varsTexto, tablero, sesion, cola, pedido>>

\* one iteration of the while loop of Deals and Accounts
IterarPagina ==
    /\ sync.estado = "listando"
    /\ sync.modulo \in {"Deals", "Accounts"}
    /\ Len(sync.pedidas) < MaxPaginas
    /\ \E r1 \in RespuestasLista(sync.page_token), r2 \in Respuestas, falla \in BOOLEAN :
          LET p == IF sync.modulo = "Deals"
                   THEN fetch_page_deals(sync.page_token, r1, r2)
                   ELSE fetch_page_accounts(sync.page_token, r1, r2)
              s1 == [sync EXCEPT !.pedidas = @ \o p.pedidas]
              buf == sync.ids_buffer \o p.data
              vacia == Len(buf) >= BULK_IDS_CHUNK \/ ~p.more_records
              s2 == [s1 EXCEPT
                       !.listados = @ \cup Rango(p.data),
                       !.max_modified_seen = MaxVisto(@, p.data),
                       !.ids_buffer = IF vacia THEN <<>> ELSE buf,
                       !.upserted = IF vacia THEN @ \cup Rango(buf) ELSE @,
                       !.page_token = p.next_page_token]
          IN  sync' =
                 IF p.exc # "" THEN [s1 EXCEPT !.estado = "abortado"]
                 ELSE IF p.data = <<>> THEN [s1 EXCEPT !.estado = "fin_lista"]
                 ELSE IF vacia /\ falla
                 THEN [s1 EXCEPT !.estado = "abortado",
                                 !.listados = @ \cup Rango(p.data)]
                 ELSE IF p.next_page_token = None /\ ~p.more_records
                 THEN [s2 EXCEPT !.estado = "fin_lista"]
                 ELSE s2
    /\ UNCHANGED <<varsConsol, varsStore, varsMail, varsTexto, tablero, sesion, cola, pedido>>

\* one iteration of the while loop of Contacts: every page is expanded and
\* upserted before the next one is asked for
IterarPaginaContacts ==
    /\ sync.estado = "listando"
    /\ sync.modulo = "Contacts"
    /\ Len(sync.pedidas) < MaxPaginas
    /\ \E r1 \in Respuestas, falla \in BOOLEAN :
          LET p == fetch_page_list(sync.page_token, r1)
              s1 == [sync EXCEPT !.pedidas = @ \o p.pedidas]
              s2 == [s1 EXCEPT
                       !.page_token = p.next_page_token,
                       !.more = p.more_records,
                       !.listados = @ \cup Rango(p.data),
                       !.max_modified_seen = MaxVisto(@, p.data),
                       !.upserted = @ \cup Rango(p.data)]
          IN  sync' =
                 IF p.exc # "" THEN [s1 EXCEPT !.estado = "abortado"]
                 ELSE IF p.data = <<>> THEN [s1 EXCEPT !.estado = "fin_lista"]
                 ELSE IF falla
                 THEN [s1 EXCEPT !.estado = "abortado",
                                 !.listados = @ \cup Rango(p.data)]
                 ELSE IF ~p.more_records THEN [s2 EXCEPT !.estado = "fin_lista"]
                 ELSE s2
    /\ UNCHANGED <<varsConsol, varsStore, varsMail, varsTexto, tablero, sesion, cola, pedido>>

\* save_cursor of Accounts: GREATEST of the stored and the new value
GREATEST(a, b) == Max(a, b)

\* main after the loop: the cursor is stored
GuardarCursor ==
    /\ sync.estado = "fin_lista"
    /\ sync' = [sync EXCEPT
                  !.estado = "terminado",
                  !.cursor =
                     CASE sync.modulo = "Deals" ->
                            IF sync.max_modified_seen > sync.since
                            THEN sync.max_modified_seen ELSE @
                       [] sync.modulo = "Accounts" ->
                            IF sync.max_modified_seen > sync.since
                            THEN GREATEST(@, sync.max_modified_seen) ELSE @
                       [] OTHER -> sync.max_modified_seen]
    /\ UNCHANGED <<varsConsol, varsStore, varsMail, varsTexto, tablero, sesion, cola, pedido>>

InitSync ==
    /\ ConsolSinUso
    /\ StoreVacio
    /\ MailVacio
    /\ TextoSinUso
    /\ tablero = SinVolcar
    /\ sesion = SinSesion
    /\ cola = <<>>
    /\ pedido = SinPedido
    /\ \E modulo \in Modulos, cursor \in 0..1 : sync = SyncSinCorrer(modulo, cursor)

NextSync ==
    \/ IniciarSync
    \/ IterarPagina
    \/ IterarPaginaContacts
    \/ GuardarCursor

SpecSync == InitSync /\ [][NextSync]_vars


-----------------------------------------------------------------------------
(* Properties of the cursor and of the page loop *)

CursorAvanzado == sync.estado = "terminado" /\ sync.cursor > sync.cursor_antes

\* C28: the stored cursor never moves backwards; when a run has advanced it,
\* every id its listing returned has been expanded and upserted and none is
\* left in the buffer; a run that aborted has left the cursor as it was.
C28_CursorTrasVolcarTodo ==
    /\ sync.cursor >= sync.cursor_antes
    /\ CursorAvanzado => (sync.listados \subseteq sync.upserted /\ sync.ids_buffer = <<>>)
    /\ sync.estado = "abortado" => sync.cursor = sync.cursor_antes

\* the cursor never moves backwards and an aborted run leaves it unchanged
C28_CursorNoRetrocede ==
    /\ sync.cursor >= sync.cursor_antes
    /\ sync.estado = "abortado" => sync.cursor = sync.cursor_antes

\* Contacts expands and upserts every page before it asks for the next one
C28_ContactsVuelcaCadaPagina ==
    (sync.modulo = "Contacts" /\ sync.estado \in {"listando", "fin_lista", "terminado"})
       => sync.listados \subseteq sync.upserted

\* a run of Deals or Accounts advanced the cursor past ids it listed and that
\* still wait in the buffer
C28_IdsPerdidos ==
    /\ CursorAvanzado
    /\ sync.ids_buffer # <<>>
    /\ \E id \in Rango(sync.ids_buffer) :
          /\ id \notin sync.upserted
          /\ Modified_Time(id) <= sync.cursor

SinRepetidos(s) == \A i, j \in 1..Len(s) : i # j => s[i] # s[j]

\* C29: the page loop of Deals and Accounts never requests the same page of
\* the same endpoint twice in a run.
C29_NoRepitePagina ==
    sync.modulo \in {"Deals", "Accounts"} => SinRepetidos(sync.pedidas)

\* the first page of the list was requested again after a response with
\* more_records and no next_page_token
C29_RepiteSinToken ==
    /\ sync.modulo \in {"Deals", "Accounts"}
    /\ \E i \in 1..Len(sync.pedidas) - 1 :
          /\ sync.pedidas[i] = [ep |-> "list", token |-> None]
          /\ sync.pedidas[i + 1] = [ep |-> "list", token |-> None]

BusquedasPedidas == SelectSeq(sync.pedidas, LAMBDA p : p.ep = "search")

\* Accounts requested the first page of the search again after the fallback
C29_RepiteTrasFallback ==
    /\ sync.modulo = "Accounts"
    /\ ~SinRepetidos(BusquedasPedidas)

\* Deals follows the search tokens: no page of the search is requested twice
C29_DealsNoRepiteBusqueda ==
    sync.modulo = "Deals" => SinRepetidos(BusquedasPedidas)


=============================================================================
